---- MODULE Spec2Model ----
(***************************************************************************)
(* ShadowFinance: the encrypted ledger contract (ShadowFinance.sol).       *)
(*                                                                         *)
(* A ciphertext handle is a natural number: 0 is the empty handle          *)
(* (euint128.wrap(0) / ebool.wrap(0)), h >= 1 refers to the h-th           *)
(* ciphertext created.  ct[h] is the plaintext behind handle h (an ebool   *)
(* is 0 or 1) and acl is the persistent access-control registry, a set of  *)
(* <<handle, principal>> pairs.  The 128-bit word is scaled down to Bits   *)
(* bits: all arithmetic is modulo Modulus = 2^Bits.                        *)
(***************************************************************************)
EXTENDS Integers, Sequences, FiniteSets, TLC

\* ---------------------------------------------------------------- bounds
Bits == 2
MaxOps == 3
\* The calls of loadOrSign, and the days at which a signature may start.
MaxSigns == 2
MaxStartDay == 1

Modulus == 2 ^ Bits
Half == 2 ^ (Bits - 1)

MonthWidth == 2592000

Accounts == {"alice", "bob"}
ThisContract == "ledger"
Sources == {"Salary", "Bonus"}
Categories == {"Food", "Rent", "", "Uncategorized"}
\* The categories given a budget.
BudgetedCategories == {"Food", "Rent"}
Dates == {86400, MonthWidth - 1, MonthWidth + 86400}
Amounts == {1, Modulus - 1}
Periods == {1, 2}
Notes == {""}
Names == {"Fund"}
Indices == 0 .. MaxOps
\* The (source, date) and (category, date) pairs of the records submitted.
IncomeInputs ==
    {<<"Salary", 86400>>, <<"Salary", MonthWidth - 1>>, <<"Bonus", MonthWidth + 86400>>}
ExpenseInputs ==
    {<<"Food", 86400>>, <<"Food", MonthWidth - 1>>, <<"Rent", MonthWidth + 86400>>}
\* The (amount, period, startDate) triples of the budgets submitted.
BudgetInputs == {<<1, 1, 86400>>, <<Modulus - 1, 2, MonthWidth + 86400>>}

\* Mutant of monthTimestamp: the nearest boundary instead of the last one.
monthTimestamp_round(date) == ((date + MonthWidth \div 2) \div MonthWidth) * MonthWidth

monthTimestamp(date) == (date \div MonthWidth) * MonthWidth
Buckets == {monthTimestamp(d) : d \in Dates}

\* ----------------------------------------------------------------- state
VARIABLES
    incomeRecords, incomeCount, expenseRecords, expenseCount,
    budgets, budgetCategories, goals, goalCount,
    totalIncome, totalExpense,
    hasTotalIncome, hasTotalExpense, hasCategoryIncome, hasCategoryExpense,
    hasMonthlyIncome, hasMonthlyExpense,
    categoryIncome, categoryExpense, monthlyIncome, monthlyExpense,
    netIncomeValue, hasNetIncomeValue,
    budgetRemaining, hasBudgetRemaining, budgetOverStatus,
    goalProgressCurrent, hasGoalProgress, goalCompleted,
    ct, acl, events,
    calls, reverted,
    \* the client: the clock, the string storage, the calls of loadOrSign, the
    \* signatures made, the last one presented to userDecrypt and the last load
    now, storage, generated, proc, signCalls, grants, presented, loaded,
    \* the finance service of the client: its state, refreshingRef.current, the
    \* handles the refresh in progress has read and its call of decryptHandles
    state, refreshingRef, rawHandles, lastDecrypt,
    \* the client session: actionPending, the invocations of the mutating
    \* actions, the caller awaiting the refresh in flight, the refreshes that
    \* passed the guard and have not finished, what the last call of
    \* refreshAll did,
    \* the pending setTimeout of the readiness effect, the last input refused
    \* by parseMoneyInput, the connected account (the `account` of the service)
    actionPending, acts, owner, inflight, lastCall, timer, lastRejected, currentAccount

vars == <<incomeRecords, incomeCount, expenseRecords, expenseCount,
          budgets, budgetCategories, goals, goalCount,
          totalIncome, totalExpense,
          hasTotalIncome, hasTotalExpense, hasCategoryIncome, hasCategoryExpense,
          hasMonthlyIncome, hasMonthlyExpense,
          categoryIncome, categoryExpense, monthlyIncome, monthlyExpense,
          netIncomeValue, hasNetIncomeValue,
          budgetRemaining, hasBudgetRemaining, budgetOverStatus,
          goalProgressCurrent, hasGoalProgress, goalCompleted,
          ct, acl, events, calls, reverted,
          now, storage, generated, proc, signCalls, grants, presented, loaded,
          state, refreshingRef, rawHandles, lastDecrypt,
          actionPending, acts, owner, inflight, lastCall, timer, lastRejected,
          currentAccount>>

sessionVars ==
    <<actionPending, acts, owner, inflight, lastCall, timer, lastRejected, currentAccount>>
clientVars == <<state, refreshingRef, rawHandles, lastDecrypt>>
grantVars == <<now, storage, generated, proc, signCalls, grants, presented, loaded>>

\* The contract storage with the registry and the event log: what a
\* transaction that reverts leaves as it was.
ledgerVars == <<incomeRecords, incomeCount, expenseRecords, expenseCount,
                budgets, budgetCategories, goals, goalCount,
                totalIncome, totalExpense,
                hasTotalIncome, hasTotalExpense, hasCategoryIncome, hasCategoryExpense,
                hasMonthlyIncome, hasMonthlyExpense,
                categoryIncome, categoryExpense, monthlyIncome, monthlyExpense,
                netIncomeValue, hasNetIncomeValue,
                budgetRemaining, hasBudgetRemaining, budgetOverStatus,
                goalProgressCurrent, hasGoalProgress, goalCompleted,
                ct, acl, events>>

ZeroIncomeRecord == [amount |-> 0, source |-> "", date |-> 0, note |-> ""]
ZeroExpenseRecord == [amount |-> 0, category |-> "", date |-> 0, note |-> ""]
ZeroBudget == [amount |-> 0, category |-> "", period |-> 0, startDate |-> 0, active |-> FALSE]
ZeroGoal == [name |-> "", goalType |-> 0, targetAmount |-> 0, deadline |-> 0,
             note |-> "", active |-> FALSE]

\* The contract storage as one record, so that the internal functions can be
\* composed; Cur is the storage before a transaction, Commit writes it back.
Cur ==
    [incomeRecords |-> incomeRecords, incomeCount |-> incomeCount,
     expenseRecords |-> expenseRecords, expenseCount |-> expenseCount,
     budgets |-> budgets, budgetCategories |-> budgetCategories,
     goals |-> goals, goalCount |-> goalCount,
     totalIncome |-> totalIncome, totalExpense |-> totalExpense,
     hasTotalIncome |-> hasTotalIncome, hasTotalExpense |-> hasTotalExpense,
     hasCategoryIncome |-> hasCategoryIncome, hasCategoryExpense |-> hasCategoryExpense,
     hasMonthlyIncome |-> hasMonthlyIncome, hasMonthlyExpense |-> hasMonthlyExpense,
     categoryIncome |-> categoryIncome, categoryExpense |-> categoryExpense,
     monthlyIncome |-> monthlyIncome, monthlyExpense |-> monthlyExpense,
     netIncomeValue |-> netIncomeValue, hasNetIncomeValue |-> hasNetIncomeValue,
     budgetRemaining |-> budgetRemaining, hasBudgetRemaining |-> hasBudgetRemaining,
     budgetOverStatus |-> budgetOverStatus,
     goalProgressCurrent |-> goalProgressCurrent, hasGoalProgress |-> hasGoalProgress,
     goalCompleted |-> goalCompleted,
     ct |-> ct, acl |-> acl, events |-> events]

Commit(L) ==
    /\ incomeRecords' = L.incomeRecords /\ incomeCount' = L.incomeCount
    /\ expenseRecords' = L.expenseRecords /\ expenseCount' = L.expenseCount
    /\ budgets' = L.budgets /\ budgetCategories' = L.budgetCategories
    /\ goals' = L.goals /\ goalCount' = L.goalCount
    /\ totalIncome' = L.totalIncome /\ totalExpense' = L.totalExpense
    /\ hasTotalIncome' = L.hasTotalIncome /\ hasTotalExpense' = L.hasTotalExpense
    /\ hasCategoryIncome' = L.hasCategoryIncome
    /\ hasCategoryExpense' = L.hasCategoryExpense
    /\ hasMonthlyIncome' = L.hasMonthlyIncome /\ hasMonthlyExpense' = L.hasMonthlyExpense
    /\ categoryIncome' = L.categoryIncome /\ categoryExpense' = L.categoryExpense
    /\ monthlyIncome' = L.monthlyIncome /\ monthlyExpense' = L.monthlyExpense
    /\ netIncomeValue' = L.netIncomeValue /\ hasNetIncomeValue' = L.hasNetIncomeValue
    /\ budgetRemaining' = L.budgetRemaining /\ hasBudgetRemaining' = L.hasBudgetRemaining
    /\ budgetOverStatus' = L.budgetOverStatus
    /\ goalProgressCurrent' = L.goalProgressCurrent
    /\ hasGoalProgress' = L.hasGoalProgress
    /\ goalCompleted' = L.goalCompleted
    /\ ct' = L.ct /\ acl' = L.acl /\ events' = L.events
    /\ UNCHANGED <<grantVars, clientVars>>

\* ---------------------------------------------- decryption signatures
\* FhevmDecryptionSignature.ts.  A key pair is the number of the call of
\* generateKeypair that made it (0: none); the signer is one wallet account.
DaySeconds == 24 * 60 * 60
durationDays == 365
userAddress == "alice"
Callers == {"navbar", "service"}
\* The instants the clock takes: a start day, and 364, 365 and 366 days later.
Instants ==
    {d * DaySeconds + k * DaySeconds : d \in 0 .. MaxStartDay, k \in {0, 364, 365, 366}}

null == [publicKey |-> 0, privateKey |-> 0, startTimestamp |-> 0, durationDays |-> 0,
         userAddress |-> ""]
IdleProc == [pc |-> "idle", storedKeyPair |-> 0, finalKeyPair |-> 0, startTimestamp |-> 0]

\* ------------------------------------------------- the finance service
\* useShadowFinanceService (app/goals/page.tsx).  Money is kept in cents; the
\* formatted text is the sign, the whole part and the two-digit cents.
ZERO_HANDLE == 0
ZERO == 0
ONE == 1
HUNDRED == 100

formatMoney(v) ==
    [sign |-> IF v < ZERO THEN "-" ELSE "",
     whole |-> (IF v < ZERO THEN v * (-1) ELSE v) \div HUNDRED,
     cents |-> (IF v < ZERO THEN v * (-1) ELSE v) % HUNDRED]
makeMoney(v) == [raw |-> v, formatted |-> formatMoney(v)]
EMPTY_MONEY == [raw |-> ZERO, formatted |-> [sign |-> "", whole |-> 0, cents |-> 0]]

INITIAL_STATE ==
    [loading |-> TRUE, refreshing |-> FALSE, error |-> "",
     totals |-> [income |-> EMPTY_MONEY, expense |-> EMPTY_MONEY, net |-> EMPTY_MONEY],
     incomes |-> <<>>, expenses |-> <<>>, budgets |-> <<>>, goals |-> <<>>,
     analytics |-> [expenseByCategory |-> {}, incomeBySource |-> {}]]

\* Nothing read yet.
NoRaw ==
    [incomesRaw |-> <<>>, expensesRaw |-> <<>>, budgetsRaw |-> <<>>, goalsRaw |-> <<>>,
     totalIncomeHandle |-> ZERO_HANDLE, totalExpenseHandle |-> ZERO_HANDLE,
     netIncomeHandle |-> ZERO_HANDLE, netIncomeHandleSavings |-> ZERO_HANDLE,
     totalIncomeHandleSavings |-> ZERO_HANDLE, account |-> ""]
\* What a call of decryptHandles did: the batch sent to userDecrypt, whether
\* ensureSignature was called and returned a signature, whether userDecrypt
\* was called and answered with every plaintext, whether the call has ended.
NoDecrypt ==
    [batch |-> {}, ensured |-> FALSE, signed |-> FALSE, called |-> FALSE,
     answered |-> FALSE, done |-> FALSE]

ClientInit ==
    /\ state = INITIAL_STATE
    /\ refreshingRef = FALSE
    /\ rawHandles = NoRaw
    /\ lastDecrypt = NoDecrypt

\* The two invocations of mutating actions a session makes, each at most
\* once; none has started.
Invocations == {"first", "second"}
IdleAct ==
    [pc |-> "idle", op |-> "", input |-> <<>>, cents |-> 0, index |-> 0, sender |-> ""]
SessionInit ==
    /\ actionPending = FALSE
    /\ acts = [p \in Invocations |-> IdleAct]
    /\ owner = "none"
    /\ inflight = 0
    /\ lastCall = "none"
    /\ timer = FALSE
    /\ lastRejected = <<"none">>
    /\ currentAccount = userAddress

GrantInit ==
    /\ now = 0
    /\ storage = [keypair |-> 0, signature |-> null]
    /\ generated = 0
    /\ proc = [p \in Callers |-> IdleProc]
    /\ signCalls = 0
    /\ grants = {}
    /\ presented = [sig |-> null, at |-> 0]
    /\ loaded = [stored |-> null, result |-> null, at |-> 0]

Init ==
    /\ incomeRecords = [a \in Accounts |-> [i \in Indices |-> ZeroIncomeRecord]]
    /\ incomeCount = [a \in Accounts |-> 0]
    /\ expenseRecords = [a \in Accounts |-> [i \in Indices |-> ZeroExpenseRecord]]
    /\ expenseCount = [a \in Accounts |-> 0]
    /\ budgets = [a \in Accounts |-> [c \in Categories |-> ZeroBudget]]
    /\ budgetCategories = [a \in Accounts |-> <<>>]
    /\ goals = [a \in Accounts |-> [i \in Indices |-> ZeroGoal]]
    /\ goalCount = [a \in Accounts |-> 0]
    /\ totalIncome = [a \in Accounts |-> 0]
    /\ totalExpense = [a \in Accounts |-> 0]
    /\ hasTotalIncome = [a \in Accounts |-> FALSE]
    /\ hasTotalExpense = [a \in Accounts |-> FALSE]
    /\ hasCategoryIncome = [a \in Accounts |-> [s \in Sources |-> FALSE]]
    /\ hasCategoryExpense = [a \in Accounts |-> [c \in Categories |-> FALSE]]
    /\ hasMonthlyIncome = [a \in Accounts |-> [m \in Buckets |-> FALSE]]
    /\ hasMonthlyExpense = [a \in Accounts |-> [m \in Buckets |-> FALSE]]
    /\ categoryIncome = [a \in Accounts |-> [s \in Sources |-> 0]]
    /\ categoryExpense = [a \in Accounts |-> [c \in Categories |-> 0]]
    /\ monthlyIncome = [a \in Accounts |-> [m \in Buckets |-> 0]]
    /\ monthlyExpense = [a \in Accounts |-> [m \in Buckets |-> 0]]
    /\ netIncomeValue = [a \in Accounts |-> 0]
    /\ hasNetIncomeValue = [a \in Accounts |-> FALSE]
    /\ budgetRemaining = [a \in Accounts |-> [c \in Categories |-> 0]]
    /\ hasBudgetRemaining = [a \in Accounts |-> [c \in Categories |-> FALSE]]
    /\ budgetOverStatus = [a \in Accounts |-> [c \in Categories |-> 0]]
    /\ goalProgressCurrent = [a \in Accounts |-> [i \in Indices |-> 0]]
    /\ hasGoalProgress = [a \in Accounts |-> [i \in Indices |-> FALSE]]
    /\ goalCompleted = [a \in Accounts |-> [i \in Indices |-> 0]]
    /\ ct = <<>>
    /\ acl = {}
    /\ events = <<>>
    /\ calls = <<>>
    /\ reverted = <<>>
    /\ GrantInit
    /\ ClientInit
    /\ SessionInit

\* ------------------------------------------------------- the FHE library
\* Plaintext behind a handle; the empty handle stands for encrypted zero.
Dec(L, h) == IF h = 0 THEN 0 ELSE L.ct[h]

\* Every operation of the library produces a new handle, the last one of ct.
LastH(L) == Len(L.ct)
fresh(L, v) == [L EXCEPT !.ct = Append(@, v)]

fromExternal(L, amount) == fresh(L, amount % Modulus)
asEuint128(L, v) == fresh(L, v % Modulus)
FHEadd(L, a, b) == fresh(L, (Dec(L, a) + Dec(L, b)) % Modulus)
FHEsub(L, a, b) == fresh(L, (Dec(L, a) - Dec(L, b) + Modulus) % Modulus)
FHEgt(L, a, b) == fresh(L, IF Dec(L, a) > Dec(L, b) THEN 1 ELSE 0)
FHEge(L, a, b) == fresh(L, IF Dec(L, a) >= Dec(L, b) THEN 1 ELSE 0)
FHEle(L, a, b) == fresh(L, IF Dec(L, a) <= Dec(L, b) THEN 1 ELSE 0)

allow(L, h, who) == [L EXCEPT !.acl = @ \cup {<<h, who>>}]
allowThis(L, h) == allow(L, h, ThisContract)


\* ---------------------------------------------------- internal functions
\* Mutants of _updateNetIncome: the operands of the subtraction swapped; the
\* result granted to a fixed account instead of the user.
_updateNetIncome_swapped(L, user) ==
    LET hasI == L.hasTotalIncome[user]
        hasE == L.hasTotalExpense[user]
        L1 == IF hasI THEN L ELSE asEuint128(L, 0)
        income == IF hasI THEN L.totalIncome[user] ELSE LastH(L1)
        L2 == IF hasE THEN L1 ELSE asEuint128(L1, 0)
        expense == IF hasE THEN L.totalExpense[user] ELSE LastH(L2)
        L3 == FHEsub(L2, expense, income)
        net == LastH(L3)
        L4 == [L3 EXCEPT !.netIncomeValue[user] = net,
                         !.hasNetIncomeValue[user] = TRUE]
    IN  allow(allowThis(L4, net), net, user)

_updateNetIncome_grantFixed(L, user) ==
    LET hasI == L.hasTotalIncome[user]
        hasE == L.hasTotalExpense[user]
        L1 == IF hasI THEN L ELSE asEuint128(L, 0)
        income == IF hasI THEN L.totalIncome[user] ELSE LastH(L1)
        L2 == IF hasE THEN L1 ELSE asEuint128(L1, 0)
        expense == IF hasE THEN L.totalExpense[user] ELSE LastH(L2)
        L3 == FHEsub(L2, income, expense)
        net == LastH(L3)
        L4 == [L3 EXCEPT !.netIncomeValue[user] = net,
                         !.hasNetIncomeValue[user] = TRUE]
    IN  allow(allow(allowThis(L4, net), net, user), net, "alice")

\* Mutant of _updateNetIncome: the flag of the net income is not set.
_updateNetIncome_noFlag(L, user) ==
    LET hasI == L.hasTotalIncome[user]
        hasE == L.hasTotalExpense[user]
        L1 == IF hasI THEN L ELSE asEuint128(L, 0)
        income == IF hasI THEN L.totalIncome[user] ELSE LastH(L1)
        L2 == IF hasE THEN L1 ELSE asEuint128(L1, 0)
        expense == IF hasE THEN L.totalExpense[user] ELSE LastH(L2)
        L3 == FHEsub(L2, income, expense)
        net == LastH(L3)
        L4 == [L3 EXCEPT !.netIncomeValue[user] = net]
    IN  allow(allowThis(L4, net), net, user)

_updateNetIncome(L, user) ==
    LET hasI == L.hasTotalIncome[user]
        hasE == L.hasTotalExpense[user]
        L1 == IF hasI THEN L ELSE asEuint128(L, 0)
        income == IF hasI THEN L.totalIncome[user] ELSE LastH(L1)
        L2 == IF hasE THEN L1 ELSE asEuint128(L1, 0)
        expense == IF hasE THEN L.totalExpense[user] ELSE LastH(L2)
        L3 == FHEsub(L2, income, expense)
        net == LastH(L3)
        L4 == [L3 EXCEPT !.netIncomeValue[user] = net,
                         !.hasNetIncomeValue[user] = TRUE]
    IN  allow(allowThis(L4, net), net, user)

\* Mutant of _updateBudgetState: over-budget computed with >= instead of >.
_updateBudgetState_ge(L, user, category) ==
    LET budget == L.budgets[user][category]
    IN  IF ~budget.active
        THEN LET zeroOver == 0
                 L1 == [L EXCEPT !.budgetOverStatus[user][category] = zeroOver,
                                 !.hasBudgetRemaining[user][category] = FALSE]
             IN  allow(allowThis(L1, zeroOver), zeroOver, user)
        ELSE LET hasS == L.hasCategoryExpense[user][category]
                 L1 == IF hasS THEN L ELSE asEuint128(L, 0)
                 spent == IF hasS THEN L.categoryExpense[user][category] ELSE LastH(L1)
                 L2 == FHEsub(L1, budget.amount, spent)
                 remaining == LastH(L2)
                 L3 == [L2 EXCEPT !.budgetRemaining[user][category] = remaining,
                                  !.hasBudgetRemaining[user][category] = TRUE]
                 L4 == allow(allowThis(L3, remaining), remaining, user)
                 L5 == FHEge(L4, spent, budget.amount)
                 over == LastH(L5)
                 L6 == [L5 EXCEPT !.budgetOverStatus[user][category] = over]
             IN  allow(allowThis(L6, over), over, user)

_updateBudgetState(L, user, category) ==
    LET budget == L.budgets[user][category]
    IN  IF ~budget.active
        THEN LET zeroOver == 0
                 L1 == [L EXCEPT !.budgetOverStatus[user][category] = zeroOver,
                                 !.hasBudgetRemaining[user][category] = FALSE]
             IN  allow(allowThis(L1, zeroOver), zeroOver, user)
        ELSE LET hasS == L.hasCategoryExpense[user][category]
                 L1 == IF hasS THEN L ELSE asEuint128(L, 0)
                 spent == IF hasS THEN L.categoryExpense[user][category] ELSE LastH(L1)
                 L2 == FHEsub(L1, budget.amount, spent)
                 remaining == LastH(L2)
                 L3 == [L2 EXCEPT !.budgetRemaining[user][category] = remaining,
                                  !.hasBudgetRemaining[user][category] = TRUE]
                 L4 == allow(allowThis(L3, remaining), remaining, user)
                 L5 == FHEgt(L4, spent, budget.amount)
                 over == LastH(L5)
                 L6 == [L5 EXCEPT !.budgetOverStatus[user][category] = over]
             IN  allow(allowThis(L6, over), over, user)

\* Mutant of updateGoal: an expense-cap goal completed when expense < target.
updateGoal_lt(L, user, i) ==
    LET goal == L.goals[user][i]
        hasN == L.hasNetIncomeValue[user]
        hasI == L.hasTotalIncome[user]
        hasE == L.hasTotalExpense[user]
        zeroCur == IF goal.goalType = 0 THEN ~hasN /\ ~hasI ELSE ~hasE
        L1 == IF zeroCur THEN asEuint128(L, 0) ELSE L
        current == IF zeroCur THEN LastH(L1)
                   ELSE IF goal.goalType = 0
                        THEN (IF hasN THEN L.netIncomeValue[user] ELSE L.totalIncome[user])
                        ELSE L.totalExpense[user]
        L2 == [L1 EXCEPT !.goalProgressCurrent[user][i] = current,
                         !.hasGoalProgress[user][i] = TRUE]
        L3 == allow(allowThis(L2, current), current, user)
        L4 == IF goal.goalType = 0 \/ hasE THEN L3 ELSE asEuint128(L3, 0)
        expense == IF hasE THEN L.totalExpense[user] ELSE LastH(L4)
        L5 == IF goal.goalType = 0
              THEN FHEge(L4, current, goal.targetAmount)
              ELSE fresh(L4, IF Dec(L4, expense) < Dec(L4, goal.targetAmount)
                             THEN 1 ELSE 0)
        completed == LastH(L5)
        L6 == [L5 EXCEPT !.goalCompleted[user][i] = completed]
    IN  allow(allowThis(L6, completed), completed, user)

\* One iteration of the loop of _updateGoals, for an active goal i.
updateGoal(L, user, i) ==
    LET goal == L.goals[user][i]
        hasN == L.hasNetIncomeValue[user]
        hasI == L.hasTotalIncome[user]
        hasE == L.hasTotalExpense[user]
        zeroCur == IF goal.goalType = 0 THEN ~hasN /\ ~hasI ELSE ~hasE
        L1 == IF zeroCur THEN asEuint128(L, 0) ELSE L
        current == IF zeroCur THEN LastH(L1)
                   ELSE IF goal.goalType = 0
                        THEN (IF hasN THEN L.netIncomeValue[user] ELSE L.totalIncome[user])
                        ELSE L.totalExpense[user]
        L2 == [L1 EXCEPT !.goalProgressCurrent[user][i] = current,
                         !.hasGoalProgress[user][i] = TRUE]
        L3 == allow(allowThis(L2, current), current, user)
        L4 == IF goal.goalType = 0 \/ hasE THEN L3 ELSE asEuint128(L3, 0)
        expense == IF hasE THEN L.totalExpense[user] ELSE LastH(L4)
        L5 == IF goal.goalType = 0
              THEN FHEge(L4, current, goal.targetAmount)
              ELSE FHEle(L4, expense, goal.targetAmount)
        completed == LastH(L5)
        L6 == [L5 EXCEPT !.goalCompleted[user][i] = completed]
    IN  allow(allowThis(L6, completed), completed, user)

RECURSIVE updateGoalsFrom(_, _, _)
updateGoalsFrom(L, user, i) ==
    IF i >= L.goalCount[user] THEN L
    ELSE IF ~L.goals[user][i].active THEN updateGoalsFrom(L, user, i + 1)
    ELSE updateGoalsFrom(updateGoal(L, user, i), user, i + 1)

\* Mutant of _updateGoals: the net income is recomputed first.
_updateGoals_net(L, user) == updateGoalsFrom(_updateNetIncome(L, user), user, 0)

_updateGoals(L, user) == updateGoalsFrom(L, user, 0)


\* ------------------------------------------------------------ operations
\* A ciphertext/proof pair that fails verification makes FHE.fromExternal
\* revert: the transaction has no effect (proofOK = FALSE).

\* Mutant of grant: the grant to the user forgotten.
grant_thisOnly(L, h, user) == allowThis(L, h)

\* FHE.allowThis(h); FHE.allow(h, user)
grant(L, h, user) == allow(allowThis(L, h), h, user)

\* Mutant of addToTotalIncome: every write stores the new amount.
addToTotalIncome_overwrite(L, user, enc) ==
    LET L1 == [L EXCEPT !.totalIncome[user] = enc, !.hasTotalIncome[user] = TRUE]
    IN  grant(L1, L1.totalIncome[user], user)

\* "first write initializes, subsequent writes add", then the two grants.
addToTotalIncome(L, user, enc) ==
    LET La == FHEadd(L, L.totalIncome[user], enc)
        L1 == IF ~L.hasTotalIncome[user]
              THEN [L EXCEPT !.totalIncome[user] = enc, !.hasTotalIncome[user] = TRUE]
              ELSE [La EXCEPT !.totalIncome[user] = LastH(La)]
    IN  grant(L1, L1.totalIncome[user], user)

addToCategoryIncome(L, user, source, enc) ==
    LET La == FHEadd(L, L.categoryIncome[user][source], enc)
        L1 == IF ~L.hasCategoryIncome[user][source]
              THEN [L EXCEPT !.categoryIncome[user][source] = enc,
                             !.hasCategoryIncome[user][source] = TRUE]
              ELSE [La EXCEPT !.categoryIncome[user][source] = LastH(La)]
    IN  grant(L1, L1.categoryIncome[user][source], user)

addToMonthlyIncome(L, user, month, enc) ==
    LET La == FHEadd(L, L.monthlyIncome[user][month], enc)
        L1 == IF ~L.hasMonthlyIncome[user][month]
              THEN [L EXCEPT !.monthlyIncome[user][month] = enc,
                             !.hasMonthlyIncome[user][month] = TRUE]
              ELSE [La EXCEPT !.monthlyIncome[user][month] = LastH(La)]
    IN  grant(L1, L1.monthlyIncome[user][month], user)

\* Mutant of addToTotalExpense: one total for all accounts.
addToTotalExpense_shared(L, user, enc) ==
    LET La == FHEadd(L, L.totalExpense[user], enc)
        L1 == IF ~L.hasTotalExpense[user]
              THEN [L EXCEPT !.totalExpense = [a \in Accounts |-> enc],
                             !.hasTotalExpense[user] = TRUE]
              ELSE [La EXCEPT !.totalExpense = [a \in Accounts |-> LastH(La)]]
    IN  grant(L1, L1.totalExpense[user], user)

addToTotalExpense(L, user, enc) ==
    LET La == FHEadd(L, L.totalExpense[user], enc)
        L1 == IF ~L.hasTotalExpense[user]
              THEN [L EXCEPT !.totalExpense[user] = enc, !.hasTotalExpense[user] = TRUE]
              ELSE [La EXCEPT !.totalExpense[user] = LastH(La)]
    IN  grant(L1, L1.totalExpense[user], user)

\* Mutant of addToCategoryExpense: a later amount replaces the sum.
addToCategoryExpense_overwrite(L, user, category, enc) ==
    LET L1 == [L EXCEPT !.categoryExpense[user][category] = enc,
                        !.hasCategoryExpense[user][category] = TRUE]
    IN  grant(L1, L1.categoryExpense[user][category], user)

addToCategoryExpense(L, user, category, enc) ==
    LET La == FHEadd(L, L.categoryExpense[user][category], enc)
        L1 == IF ~L.hasCategoryExpense[user][category]
              THEN [L EXCEPT !.categoryExpense[user][category] = enc,
                             !.hasCategoryExpense[user][category] = TRUE]
              ELSE [La EXCEPT !.categoryExpense[user][category] = LastH(La)]
    IN  grant(L1, L1.categoryExpense[user][category], user)

addToMonthlyExpense(L, user, month, enc) ==
    LET La == FHEadd(L, L.monthlyExpense[user][month], enc)
        L1 == IF ~L.hasMonthlyExpense[user][month]
              THEN [L EXCEPT !.monthlyExpense[user][month] = enc,
                             !.hasMonthlyExpense[user][month] = TRUE]
              ELSE [La EXCEPT !.monthlyExpense[user][month] = LastH(La)]
    IN  grant(L1, L1.monthlyExpense[user][month], user)

\* addIncome after FHE.fromExternal: L0 is the storage with the new ciphertext.
addIncomeStore(L0, sender, encryptedAmount, index, source, date, note) ==
    LET L1 == [L0 EXCEPT !.incomeRecords[sender][index] =
                             [amount |-> encryptedAmount, source |-> source,
                              date |-> date, note |-> note],
                         !.incomeCount[sender] = index + 1]
        L2 == addToTotalIncome(L1, sender, encryptedAmount)
        L3 == addToCategoryIncome(L2, sender, source, encryptedAmount)
        L4 == addToMonthlyIncome(L3, sender, monthTimestamp(date), encryptedAmount)
        L5 == grant(L4, encryptedAmount, sender)
        L6 == [L5 EXCEPT !.events = Append(@, [kind |-> "IncomeAdded", user |-> sender,
                                               index |-> index, key |-> source,
                                               date |-> date])]
    IN  _updateGoals(_updateNetIncome(L6, sender), sender)

\* Mutant of addIncomeBody: the record written at index 0 whatever the count.
addIncomeBody_reuse(L, sender, amount, source, date, note) ==
    addIncomeStore(fromExternal(L, amount), sender, Len(L.ct) + 1,
                   0, source, date, note)

addIncomeBody(L, sender, amount, source, date, note) ==
    addIncomeStore(fromExternal(L, amount), sender, Len(L.ct) + 1,
                   L.incomeCount[sender], source, date, note)

\* Mutant of addExpenseStore: the event carries the amount.
addExpenseStore_leak(L0, sender, encryptedAmount, index, category, date, note) ==
    LET L1 == [L0 EXCEPT !.expenseRecords[sender][index] =
                             [amount |-> encryptedAmount, category |-> category,
                              date |-> date, note |-> note],
                         !.expenseCount[sender] = index + 1]
        L2 == addToTotalExpense(L1, sender, encryptedAmount)
        L3 == addToCategoryExpense(L2, sender, category, encryptedAmount)
        L4 == addToMonthlyExpense(L3, sender, monthTimestamp(date), encryptedAmount)
        L5 == grant(L4, encryptedAmount, sender)
        L6 == [L5 EXCEPT !.events = Append(@, [kind |-> "ExpenseAdded", user |-> sender,
                                               index |-> index, key |-> category,
                                               date |-> Dec(L5, encryptedAmount)])]
    IN  _updateGoals(_updateBudgetState(_updateNetIncome(L6, sender), sender, category),
                     sender)

addExpenseStore(L0, sender, encryptedAmount, index, category, date, note) ==
    LET L1 == [L0 EXCEPT !.expenseRecords[sender][index] =
                             [amount |-> encryptedAmount, category |-> category,
                              date |-> date, note |-> note],
                         !.expenseCount[sender] = index + 1]
        L2 == addToTotalExpense(L1, sender, encryptedAmount)
        L3 == addToCategoryExpense(L2, sender, category, encryptedAmount)
        L4 == addToMonthlyExpense(L3, sender, monthTimestamp(date), encryptedAmount)
        L5 == grant(L4, encryptedAmount, sender)
        L6 == [L5 EXCEPT !.events = Append(@, [kind |-> "ExpenseAdded", user |-> sender,
                                               index |-> index, key |-> category,
                                               date |-> date])]
    IN  _updateGoals(_updateBudgetState(_updateNetIncome(L6, sender), sender, category),
                     sender)

addExpenseBody(L, sender, amount, category, date, note) ==
    addExpenseStore(fromExternal(L, amount), sender, Len(L.ct) + 1,
                    L.expenseCount[sender], category, date, note)

\* Mutant of setBudgetBody: the budget state of the category not recomputed.
setBudgetBody_stale(L, sender, amount, category, period, startDate) ==
    LET L0 == fromExternal(L, amount)
        encryptedAmount == LastH(L0)
        L1 == [L0 EXCEPT !.budgets[sender][category] =
                             [amount |-> encryptedAmount, category |-> category,
                              period |-> period, startDate |-> startDate,
                              active |-> TRUE]]
        list == L1.budgetCategories[sender]
        exists == \E i \in 1 .. Len(list) : list[i] = category
        L2 == IF exists THEN L1
              ELSE [L1 EXCEPT !.budgetCategories[sender] = Append(@, category)]
        L3 == allow(allowThis(L2, encryptedAmount), encryptedAmount, sender)
    IN  [L3 EXCEPT !.events = Append(@, [kind |-> "BudgetSet", user |-> sender,
                                         index |-> period, key |-> category,
                                         date |-> startDate])]

\* Mutant of setBudgetBody: the category pushed without the membership test.
setBudgetBody_push(L, sender, amount, category, period, startDate) ==
    LET L0 == fromExternal(L, amount)
        encryptedAmount == LastH(L0)
        L1 == [L0 EXCEPT !.budgets[sender][category] =
                             [amount |-> encryptedAmount, category |-> category,
                              period |-> period, startDate |-> startDate,
                              active |-> TRUE],
                         !.budgetCategories[sender] = Append(@, category)]
        L3 == allow(allowThis(L1, encryptedAmount), encryptedAmount, sender)
        L4 == [L3 EXCEPT !.events = Append(@, [kind |-> "BudgetSet", user |-> sender,
                                               index |-> period, key |-> category,
                                               date |-> startDate])]
    IN  _updateBudgetState(L4, sender, category)

setBudgetBody(L, sender, amount, category, period, startDate) ==
    LET L0 == fromExternal(L, amount)
        encryptedAmount == LastH(L0)
        L1 == [L0 EXCEPT !.budgets[sender][category] =
                             [amount |-> encryptedAmount, category |-> category,
                              period |-> period, startDate |-> startDate,
                              active |-> TRUE]]
        list == L1.budgetCategories[sender]
        exists == \E i \in 1 .. Len(list) : list[i] = category
        L2 == IF exists THEN L1
              ELSE [L1 EXCEPT !.budgetCategories[sender] = Append(@, category)]
        L3 == allow(allowThis(L2, encryptedAmount), encryptedAmount, sender)
        L4 == [L3 EXCEPT !.events = Append(@, [kind |-> "BudgetSet", user |-> sender,
                                               index |-> period, key |-> category,
                                               date |-> startDate])]
    IN  _updateBudgetState(L4, sender, category)

setGoalBody(L, sender, name, goalType, targetAmount, deadline, note) ==
    LET L0 == fromExternal(L, targetAmount)
        encryptedAmount == LastH(L0)
        index == L.goalCount[sender]
        L1 == [L0 EXCEPT !.goals[sender][index] =
                             [name |-> name, goalType |-> goalType,
                              targetAmount |-> encryptedAmount, deadline |-> deadline,
                              note |-> note, active |-> TRUE],
                         !.goalCount[sender] = index + 1]
        L2 == allow(allowThis(L1, encryptedAmount), encryptedAmount, sender)
        L3 == [L2 EXCEPT !.events = Append(@, [kind |-> "GoalSet", user |-> sender,
                                               index |-> index, key |-> name,
                                               date |-> goalType])]
    IN  _updateGoals(L3, sender)

\* calls is the history of the successful transactions with their plaintext
\* inputs; it is not part of the contract.
Call(op, sender, amount, key, date, goalType, period) ==
    [op |-> op, sender |-> sender, amount |-> amount, key |-> key, date |-> date,
     goalType |-> goalType, period |-> period]

\* reverted is the history of the transactions that reverted, with the reason;
\* a revert rolls the whole transaction back.
revert(op, reason) ==
    /\ reverted' = Append(reverted, [op |-> op, reason |-> reason])
    /\ UNCHANGED <<ledgerVars, calls, grantVars, clientVars>>

addIncome(sender, amount, proofOK, source, date, note) ==
    /\ Len(calls) + Len(reverted) < MaxOps
    /\ IF ~proofOK THEN revert("addIncome", "ProofInvalid")
       ELSE /\ Commit(addIncomeBody(Cur, sender, amount, source, date, note))
            /\ calls' = Append(calls, Call("addIncome", sender, amount, source, date,
                                           0, 0))
            /\ UNCHANGED reverted

addExpense(sender, amount, proofOK, category, date, note) ==
    /\ Len(calls) + Len(reverted) < MaxOps
    /\ IF ~proofOK THEN revert("addExpense", "ProofInvalid")
       ELSE /\ Commit(addExpenseBody(Cur, sender, amount, category, date, note))
            /\ calls' = Append(calls, Call("addExpense", sender, amount, category, date,
                                           0, 0))
            /\ UNCHANGED reverted

\* Mutant of setBudget: the category pushed before the proof is verified and
\* not rolled back.
setBudget_partial(sender, amount, proofOK, category, period, startDate) ==
    /\ Len(calls) + Len(reverted) < MaxOps
    /\ IF ~proofOK
       THEN /\ Commit([Cur EXCEPT !.budgetCategories[sender] = Append(@, category)])
            /\ reverted' = Append(reverted, [op |-> "setBudget", reason |-> "ProofInvalid"])
            /\ UNCHANGED calls
       ELSE /\ Commit(setBudgetBody(Cur, sender, amount, category, period, startDate))
            /\ calls' = Append(calls, Call("setBudget", sender, amount, category,
                                           startDate, 0, period))
            /\ UNCHANGED reverted

setBudget(sender, amount, proofOK, category, period, startDate) ==
    /\ Len(calls) + Len(reverted) < MaxOps
    /\ IF ~proofOK THEN revert("setBudget", "ProofInvalid")
       ELSE /\ Commit(setBudgetBody(Cur, sender, amount, category, period, startDate))
            /\ calls' = Append(calls, Call("setBudget", sender, amount, category,
                                           startDate, 0, period))
            /\ UNCHANGED reverted

\* Mutant of setGoal: the goal type tested after the goal is stored, the
\* stored goal kept.
setGoal_lateCheck(sender, name, goalType, targetAmount, proofOK, deadline, note) ==
    /\ Len(calls) + Len(reverted) < MaxOps
    /\ IF ~proofOK THEN revert("setGoal", "ProofInvalid")
       ELSE IF goalType > 1
       THEN /\ Commit(setGoalBody(Cur, sender, name, goalType, targetAmount, deadline,
                                  note))
            /\ reverted' = Append(reverted, [op |-> "setGoal",
                                             reason |-> "InvalidGoalType"])
            /\ UNCHANGED calls
       ELSE /\ Commit(setGoalBody(Cur, sender, name, goalType, targetAmount, deadline,
                                  note))
            /\ calls' = Append(calls, Call("setGoal", sender, targetAmount, name,
                                           deadline, goalType, 0))
            /\ UNCHANGED reverted

\* require(FHE.isInitialized(encryptedAmount)) always passes: a verified input
\* has a non-empty handle.  require(goalType <= 1) rejects the other types.
setGoal(sender, name, goalType, targetAmount, proofOK, deadline, note) ==
    /\ Len(calls) + Len(reverted) < MaxOps
    /\ IF ~proofOK THEN revert("setGoal", "ProofInvalid")
       ELSE IF goalType > 1 THEN revert("setGoal", "InvalidGoalType")
       ELSE /\ Commit(setGoalBody(Cur, sender, name, goalType, targetAmount, deadline,
                                  note))
            /\ calls' = Append(calls, Call("setGoal", sender, targetAmount, name,
                                           deadline, goalType, 0))
            /\ UNCHANGED reverted

Next ==
    \/ /\ \E sender \in Accounts, amount \in Amounts, in \in IncomeInputs, note \in Notes :
              addIncome(sender, amount, TRUE, in[1], in[2], note)
       /\ UNCHANGED sessionVars
    \/ /\ \E sender \in Accounts, amount \in Amounts, in \in ExpenseInputs, note \in Notes :
              addExpense(sender, amount, TRUE, in[1], in[2], note)
       /\ UNCHANGED sessionVars
    \/ /\ \E sender \in Accounts, category \in BudgetedCategories, in \in BudgetInputs :
              setBudget(sender, in[1], TRUE, category, in[2], in[3])
       /\ UNCHANGED sessionVars
    \/ /\ \E sender \in Accounts, amount \in Amounts, name \in Names, goalType \in {0, 1} :
              setGoal(sender, name, goalType, amount, TRUE, MonthWidth, "")
       /\ UNCHANGED sessionVars
    \* a ciphertext/proof pair that fails verification
    \/ /\ \E sender \in Accounts : addIncome(sender, 1, FALSE, "Salary", 86400, "")
       /\ UNCHANGED sessionVars
    \/ /\ \E sender \in Accounts : addExpense(sender, 1, FALSE, "Food", 86400, "")
       /\ UNCHANGED sessionVars
    \/ /\ \E sender \in Accounts : setBudget(sender, 1, FALSE, "Food", 1, 86400)
       /\ UNCHANGED sessionVars
    \/ /\ \E sender \in Accounts : setGoal(sender, "Fund", 0, 1, FALSE, MonthWidth, "")
       /\ UNCHANGED sessionVars
    \* a goal type outside the two variants
    \/ /\ \E sender \in Accounts : setGoal(sender, "Fund", 2, 1, TRUE, MonthWidth, "")
       /\ UNCHANGED sessionVars

Spec == Init /\ [][Next]_vars


\* ------------------------------------- decryption signatures: operations
\* Mutant of isValid: the last second of the period taken as still valid.
isValid_inclusive(sig, t) ==
    t <= sig.startTimestamp + sig.durationDays * 24 * 60 * 60

\* isValid(), with _timestampNow() = t.
isValid(sig, t) ==
    t < sig.startTimestamp + sig.durationDays * 24 * 60 * 60

\* Date.now() moves on between two steps of the client.
tick(t) ==
    /\ t > now
    /\ now' = t
    /\ UNCHANGED <<ledgerVars, calls, reverted, clientVars, sessionVars,
                   storage, generated, proc, signCalls, grants, presented, loaded>>

\* loadOrSign up to `await storage.getItem(keyPairKey)`: no key pair is passed
\* by either caller, the stored one is read.
loadOrSign(p) ==
    /\ proc[p].pc = "idle"
    /\ signCalls < MaxSigns
    /\ signCalls' = signCalls + 1
    /\ proc' = [proc EXCEPT ![p] = [IdleProc EXCEPT !.pc = "getItem",
                                                    !.storedKeyPair = storage.keypair]]
    /\ UNCHANGED <<ledgerVars, calls, reverted, clientVars, sessionVars,
                   now, storage, generated, grants, presented, loaded>>

\* After getItem: the stored key pair is taken, or a new one is generated and
\* saved under fhevm_keypair:<userAddress>.
loadOrSign_keypair(p) ==
    /\ proc[p].pc = "getItem"
    /\ IF proc[p].storedKeyPair # 0
       THEN /\ proc' = [proc EXCEPT ![p].pc = "new",
                                    ![p].finalKeyPair = proc[p].storedKeyPair]
            /\ UNCHANGED <<generated, storage>>
       ELSE /\ generated' = generated + 1
            /\ proc' = [proc EXCEPT ![p].pc = "new", ![p].finalKeyPair = generated + 1]
            /\ storage' = [storage EXCEPT !.keypair = generated + 1]
    /\ UNCHANGED <<ledgerVars, calls, reverted, clientVars, sessionVars,
                   now, signCalls, grants, presented, loaded>>

\* FhevmDecryptionSignature.new up to `await signer.signTypedData`.
new(p) ==
    /\ proc[p].pc = "new"
    /\ proc' = [proc EXCEPT ![p].pc = "signTypedData", ![p].startTimestamp = now]
    /\ UNCHANGED <<ledgerVars, calls, reverted, clientVars, sessionVars,
                   now, storage, generated, signCalls, grants, presented, loaded>>

\* Mutant of signatureOf: a stored signature is reused.
signatureOf_cached(p) ==
    IF storage.signature # null
    THEN storage.signature
    ELSE [publicKey |-> proc[p].finalKeyPair, privateKey |-> proc[p].finalKeyPair,
          startTimestamp |-> proc[p].startTimestamp, durationDays |-> durationDays,
          userAddress |-> userAddress]

\* The signature a call of loadOrSign returns.
signatureOf(p) ==
    [publicKey |-> proc[p].finalKeyPair, privateKey |-> proc[p].finalKeyPair,
     startTimestamp |-> proc[p].startTimestamp, durationDays |-> durationDays,
     userAddress |-> userAddress]

\* The wallet answers: loadOrSign returns the signature (null when signing
\* failed).  The navigation bar keeps it; decryptHandles presents it to
\* instance.userDecrypt at once, without a call of isValid.
signTypedData(p, signed) ==
    /\ proc[p].pc = "signTypedData"
    /\ proc' = [proc EXCEPT ![p] = IdleProc]
    /\ IF signed
       THEN /\ grants' = grants \cup {[sig |-> signatureOf(p),
                                        persisted |-> storage.keypair
                                                          = proc[p].finalKeyPair]}
            /\ presented' = IF p = "service"
                            THEN [sig |-> signatureOf(p), at |-> now]
                            ELSE presented
       ELSE UNCHANGED <<grants, presented>>
    /\ UNCHANGED <<ledgerVars, calls, reverted, clientVars, sessionVars,
                   now, storage, generated, signCalls, loaded>>

saveToGenericStringStorage(sig) ==
    /\ storage' = [storage EXCEPT !.signature = sig]
    /\ UNCHANGED <<ledgerVars, calls, reverted, clientVars, sessionVars,
                   now, generated, proc, signCalls, grants, presented, loaded>>

\* What loadFromGenericStringStorage returns at time t from the store st.
loadResult(st, t) ==
    IF st.signature = null THEN null
    ELSE IF ~isValid(st.signature, t) THEN null
    ELSE st.signature

loadFromGenericStringStorage ==
    /\ loaded' = [stored |-> storage.signature,
                  result |-> loadResult(storage, now), at |-> now]
    /\ UNCHANGED <<ledgerVars, calls, reverted, clientVars, sessionVars,
                   now, storage, generated, proc, signCalls, grants, presented>>

GrantNext ==
    \/ \E t \in Instants : tick(t)
    \/ \E p \in Callers : loadOrSign(p)
    \/ \E p \in Callers : loadOrSign_keypair(p)
    \/ \E p \in Callers : new(p)
    \/ \E p \in Callers, signed \in BOOLEAN : signTypedData(p, signed)
    \/ \E g \in grants : saveToGenericStringStorage(g.sig)
    \/ loadFromGenericStringStorage

GrantSpec == Init /\ [][GrantNext]_vars


\* -------------------------------------------------------- read accessors
getIncomeCount(L, sender) == L.incomeCount[sender]
getIncomeRecord(L, sender, index) == L.incomeRecords[sender][index]
getExpenseCount(L, sender) == L.expenseCount[sender]
getExpenseRecord(L, sender, index) == L.expenseRecords[sender][index]
getBudget(L, sender, category) == L.budgets[sender][category]
getBudgetExecution(L, sender, category) ==
    IF ~L.hasCategoryExpense[sender][category] THEN 0
    ELSE L.categoryExpense[sender][category]
getBudgetRemaining(L, sender, category) ==
    IF ~L.hasBudgetRemaining[sender][category] THEN 0
    ELSE L.budgetRemaining[sender][category]
isOverBudget(L, sender, category) ==
    IF ~L.hasBudgetRemaining[sender][category] THEN 0
    ELSE L.budgetOverStatus[sender][category]
getBudgetCategoryCount(L, sender) == Len(L.budgetCategories[sender])
getTotalIncome(L, sender) ==
    IF ~L.hasTotalIncome[sender] THEN 0 ELSE L.totalIncome[sender]
getTotalExpense(L, sender) ==
    IF ~L.hasTotalExpense[sender] THEN 0 ELSE L.totalExpense[sender]
getNetIncome(L, sender) ==
    IF ~L.hasNetIncomeValue[sender] THEN 0 ELSE L.netIncomeValue[sender]
getCategoryIncome(L, sender, category) ==
    IF ~L.hasCategoryIncome[sender][category] THEN 0
    ELSE L.categoryIncome[sender][category]
getCategoryExpense(L, sender, category) ==
    IF ~L.hasCategoryExpense[sender][category] THEN 0
    ELSE L.categoryExpense[sender][category]
getMonthlyIncome(L, sender, month) ==
    IF ~L.hasMonthlyIncome[sender][month] THEN 0 ELSE L.monthlyIncome[sender][month]
getMonthlyExpense(L, sender, month) ==
    IF ~L.hasMonthlyExpense[sender][month] THEN 0 ELSE L.monthlyExpense[sender][month]
getSavingRateRaw(L, sender) ==
    <<IF L.hasNetIncomeValue[sender] THEN L.netIncomeValue[sender] ELSE 0,
      IF L.hasTotalIncome[sender] THEN L.totalIncome[sender] ELSE 0>>
getGoalCount(L, sender) == L.goalCount[sender]
getGoal(L, sender, index) == L.goals[sender][index]
getGoalProgress(L, sender, index) ==
    IF ~L.goals[sender][index].active \/ ~L.hasGoalProgress[sender][index]
    THEN <<0, L.goals[sender][index].targetAmount>>
    ELSE <<L.goalProgressCurrent[sender][index], L.goals[sender][index].targetAmount>>
isGoalCompleted(L, sender, index) ==
    IF ~L.hasGoalProgress[sender][index] THEN 0 ELSE L.goalCompleted[sender][index]

\* The handles a caller obtains through the accessors keyed by msg.sender.
ViewHandles(L, sender) ==
    {getIncomeRecord(L, sender, i).amount : i \in Indices}
    \cup {getExpenseRecord(L, sender, i).amount : i \in Indices}
    \cup {getBudget(L, sender, c).amount : c \in Categories}
    \cup {getBudgetExecution(L, sender, c) : c \in Categories}
    \cup {getBudgetRemaining(L, sender, c) : c \in Categories}
    \cup {isOverBudget(L, sender, c) : c \in Categories}
    \cup {getTotalIncome(L, sender), getTotalExpense(L, sender), getNetIncome(L, sender)}
    \cup {getCategoryIncome(L, sender, s) : s \in Sources}
    \cup {getCategoryExpense(L, sender, c) : c \in Categories}
    \cup {getMonthlyIncome(L, sender, m) : m \in Buckets}
    \cup {getMonthlyExpense(L, sender, m) : m \in Buckets}
    \cup {getSavingRateRaw(L, sender)[1], getSavingRateRaw(L, sender)[2]}
    \cup {getGoal(L, sender, i).targetAmount : i \in Indices}
    \cup {getGoalProgress(L, sender, i)[1] : i \in Indices}
    \cup {isGoalCompleted(L, sender, i) : i \in Indices}

\* The handles held in the slots of an account: what the getter that the
\* compiler generates for each public mapping returns for the address `user`,
\* whoever the caller is.
SlotHandles(L, user) ==
    {L.incomeRecords[user][i].amount : i \in Indices}
    \cup {L.expenseRecords[user][i].amount : i \in Indices}
    \cup {L.budgets[user][c].amount : c \in Categories}
    \cup {L.goals[user][i].targetAmount : i \in Indices}
    \cup {L.totalIncome[user], L.totalExpense[user], L.netIncomeValue[user]}
    \cup {L.categoryIncome[user][s] : s \in Sources}
    \cup {L.categoryExpense[user][c] : c \in Categories}
    \cup {L.monthlyIncome[user][m] : m \in Buckets}
    \cup {L.monthlyExpense[user][m] : m \in Buckets}
    \cup {L.budgetRemaining[user][c] : c \in Categories}
    \cup {L.budgetOverStatus[user][c] : c \in Categories}
    \cup {L.goalProgressCurrent[user][i] : i \in Indices}
    \cup {L.goalCompleted[user][i] : i \in Indices}

\* Every state mapping is declared public: its generated getter takes the
\* account as an argument and does not look at the caller.
PublicGetterHandles(L, caller) == UNION {SlotHandles(L, user) : user \in Accounts}

ReadableHandles(L, caller) == ViewHandles(L, caller) \cup PublicGetterHandles(L, caller)

\* ---------------------------------------------------- client normalization
\* Mutant of normalizeSigned128: the raw value, not reinterpreted.
normalizeSigned128_unsigned(value) == ((value % Modulus) + Modulus) % Modulus

normalizeSigned128(value) ==
    LET normalized == ((value % Modulus) + Modulus) % Modulus
    IN  IF normalized >= Half THEN normalized - Modulus ELSE normalized


\* ------------------------------------------- the finance service: refresh
getBudgetCategory(L, sender, index) == L.budgetCategories[sender][index + 1]

\* The reads of refreshAll, made as `account`: counts, records, totals, the
\* saving-rate pair, the budgets of the listed categories and the goals.
readIncomes(L, account) ==
    [i \in 1 .. getIncomeCount(L, account) |->
        [index |-> i - 1,
         source |-> getIncomeRecord(L, account, i - 1).source,
         date |-> getIncomeRecord(L, account, i - 1).date,
         amountHandle |-> getIncomeRecord(L, account, i - 1).amount]]
readExpenses(L, account) ==
    [i \in 1 .. getExpenseCount(L, account) |->
        [index |-> i - 1,
         category |-> getExpenseRecord(L, account, i - 1).category,
         date |-> getExpenseRecord(L, account, i - 1).date,
         amountHandle |-> getExpenseRecord(L, account, i - 1).amount]]
readBudget(L, account, category) ==
    [category |-> category,
     period |-> getBudget(L, account, category).period,
     startDate |-> getBudget(L, account, category).startDate,
     active |-> getBudget(L, account, category).active,
     amountHandle |-> getBudget(L, account, category).amount,
     executionHandle |-> getBudgetExecution(L, account, category),
     remainingHandle |-> getBudgetRemaining(L, account, category),
     overHandle |-> isOverBudget(L, account, category)]
readGoal(L, account, index) ==
    [index |-> index,
     goalType |-> IF getGoal(L, account, index).goalType = 0 THEN "savings" ELSE "expense",
     active |-> getGoal(L, account, index).active,
     targetHandle |-> getGoal(L, account, index).targetAmount,
     currentHandle |-> getGoalProgress(L, account, index)[1],
     completedHandle |-> isGoalCompleted(L, account, index)]
readAll(L, account) ==
    [incomesRaw |-> readIncomes(L, account),
     expensesRaw |-> readExpenses(L, account),
     budgetsRaw |-> [k \in 1 .. getBudgetCategoryCount(L, account) |->
                        readBudget(L, account, getBudgetCategory(L, account, k - 1))],
     goalsRaw |-> [i \in 1 .. getGoalCount(L, account) |-> readGoal(L, account, i - 1)],
     totalIncomeHandle |-> getTotalIncome(L, account),
     totalExpenseHandle |-> getTotalExpense(L, account),
     netIncomeHandle |-> getNetIncome(L, account),
     netIncomeHandleSavings |-> getSavingRateRaw(L, account)[1],
     totalIncomeHandleSavings |-> getSavingRateRaw(L, account)[2],
     account |-> account]

\* The handles pushed to decryptRequests.
\* Mutant of decryptRequests: the handles of the goals are left out.
decryptRequests_noGoals(r) ==
    {r.incomesRaw[i].amountHandle : i \in DOMAIN r.incomesRaw}
    \cup {r.expensesRaw[i].amountHandle : i \in DOMAIN r.expensesRaw}
    \cup {r.totalIncomeHandle, r.totalExpenseHandle, r.netIncomeHandle,
           r.netIncomeHandleSavings, r.totalIncomeHandleSavings}
    \cup UNION {{r.budgetsRaw[k].amountHandle, r.budgetsRaw[k].executionHandle,
                  r.budgetsRaw[k].remainingHandle, r.budgetsRaw[k].overHandle} :
                    k \in DOMAIN r.budgetsRaw}

decryptRequests(r) ==
    {r.incomesRaw[i].amountHandle : i \in DOMAIN r.incomesRaw}
    \cup {r.expensesRaw[i].amountHandle : i \in DOMAIN r.expensesRaw}
    \cup {r.totalIncomeHandle, r.totalExpenseHandle, r.netIncomeHandle,
           r.netIncomeHandleSavings, r.totalIncomeHandleSavings}
    \cup UNION {{r.budgetsRaw[k].amountHandle, r.budgetsRaw[k].executionHandle,
                  r.budgetsRaw[k].remainingHandle, r.budgetsRaw[k].overHandle} :
                    k \in DOMAIN r.budgetsRaw}
    \cup UNION {{r.goalsRaw[i].targetHandle, r.goalsRaw[i].currentHandle,
                  r.goalsRaw[i].completedHandle} : i \in DOMAIN r.goalsRaw}

\* Mutant of filtered: the empty handles kept in the batch.
filtered_all(requests) == requests

\* requests.filter((r) => r.handle !== ZERO_HANDLE)
filtered(requests) == {h \in requests : h # ZERO_HANDLE}

\* The decryption service answers a batch only if the account and the
\* contract are in the access-control set of every handle of it; it may
\* refuse ("refused") or leave a handle out of its result ("missing").
Outcomes == {"ok", "refused", "missing"}
serviceAccepts(L, batch, account) ==
    \A h \in batch : <<h, account>> \in L.acl /\ <<h, ThisContract>> \in L.acl

\* A decrypted value is a bigint already (an ebool is kept as 0 or 1).
coerceToBigInt(value) == value

\* decryptHandles: the error thrown ("" for none), the map returned and what
\* it asked of ensureSignature and of instance.userDecrypt.
\* Mutant of decryptHandles: userDecrypt is called without a signature.
decryptHandles_unsigned(L, requests, signerAddress, signatureOK, outcome) ==
    IF filtered(requests) = {}
    THEN [error |-> "", decrypted |-> <<>>, log |-> [NoDecrypt EXCEPT !.done = TRUE]]
    ELSE IF FALSE
    THEN [error |-> "Unable to obtain FHEVM decryption signature", decrypted |-> <<>>,
          log |-> [NoDecrypt EXCEPT !.ensured = TRUE, !.done = TRUE]]
    ELSE IF outcome = "refused" \/ ~serviceAccepts(L, filtered(requests), signerAddress)
    THEN [error |-> "userDecrypt failed", decrypted |-> <<>>,
          log |-> [batch |-> filtered(requests), ensured |-> TRUE,
                   signed |-> signatureOK, called |-> TRUE,
                   answered |-> FALSE, done |-> TRUE]]
    ELSE IF outcome = "missing"
    THEN [error |-> "Unsupported decrypted value type: undefined", decrypted |-> <<>>,
          log |-> [batch |-> filtered(requests), ensured |-> TRUE,
                   signed |-> signatureOK, called |-> TRUE,
                   answered |-> FALSE, done |-> TRUE]]
    ELSE [error |-> "",
          decrypted |-> [h \in filtered(requests) |-> coerceToBigInt(Dec(L, h))],
          log |-> [batch |-> filtered(requests), ensured |-> TRUE,
                   signed |-> signatureOK, called |-> TRUE,
                   answered |-> TRUE, done |-> TRUE]]

decryptHandles(L, requests, signerAddress, signatureOK, outcome) ==
    IF filtered(requests) = {}
    THEN [error |-> "", decrypted |-> <<>>, log |-> [NoDecrypt EXCEPT !.done = TRUE]]
    ELSE IF ~signatureOK
    THEN [error |-> "Unable to obtain FHEVM decryption signature", decrypted |-> <<>>,
          log |-> [NoDecrypt EXCEPT !.ensured = TRUE, !.done = TRUE]]
    ELSE IF outcome = "refused" \/ ~serviceAccepts(L, filtered(requests), signerAddress)
    THEN [error |-> "userDecrypt failed", decrypted |-> <<>>,
          log |-> [batch |-> filtered(requests), ensured |-> TRUE,
                   signed |-> signatureOK, called |-> TRUE,
                   answered |-> FALSE, done |-> TRUE]]
    ELSE IF outcome = "missing"
    THEN [error |-> "Unsupported decrypted value type: undefined", decrypted |-> <<>>,
          log |-> [batch |-> filtered(requests), ensured |-> TRUE,
                   signed |-> signatureOK, called |-> TRUE,
                   answered |-> FALSE, done |-> TRUE]]
    ELSE [error |-> "",
          decrypted |-> [h \in filtered(requests) |-> coerceToBigInt(Dec(L, h))],
          log |-> [batch |-> filtered(requests), ensured |-> TRUE,
                   signed |-> signatureOK, called |-> TRUE,
                   answered |-> TRUE, done |-> TRUE]]

\* Mutant of valueOf: ONE for the empty handle.
valueOf_one(decrypted, handle) ==
    IF handle = ZERO_HANDLE THEN ONE
    ELSE IF handle \in DOMAIN decrypted THEN decrypted[handle] ELSE ZERO

\* handle === ZERO_HANDLE ? ZERO : decrypted[handle] ?? ZERO
valueOf(decrypted, handle) ==
    IF handle = ZERO_HANDLE THEN ZERO
    ELSE IF handle \in DOMAIN decrypted THEN decrypted[handle] ELSE ZERO

incomeItem(decrypted, income) ==
    [index |-> income.index, source |-> income.source, date |-> income.date,
     amount |-> makeMoney(valueOf(decrypted, income.amountHandle))]
expenseItem(decrypted, expense) ==
    [index |-> expense.index, category |-> expense.category, date |-> expense.date,
     amount |-> makeMoney(valueOf(decrypted, expense.amountHandle))]
budgetItem(decrypted, budget) ==
    [category |-> budget.category, period |-> budget.period,
     startDate |-> budget.startDate, active |-> budget.active,
     amount |-> makeMoney(valueOf(decrypted, budget.amountHandle)),
     spent |-> makeMoney(valueOf(decrypted, budget.executionHandle)),
     remaining |-> makeMoney(normalizeSigned128(valueOf(decrypted, budget.remainingHandle))),
     isOverBudget |-> valueOf(decrypted, budget.overHandle) = ONE]
goalItem(decrypted, goal) ==
    [index |-> goal.index, goalType |-> goal.goalType, active |-> goal.active,
     target |-> makeMoney(valueOf(decrypted, goal.targetHandle)),
     current |-> makeMoney(normalizeSigned128(valueOf(decrypted, goal.currentHandle))),
     completed |-> valueOf(decrypted, goal.completedHandle) = ONE]

RECURSIVE SumRaw(_, _)
\* The sum of amount.raw over the items at the indices idx, as the forEach
\* loops add them up (bigint).
SumRaw(items, idx) ==
    IF idx = {} THEN ZERO
    ELSE LET i == CHOOSE j \in idx : TRUE
         IN  items[i].amount.raw + SumRaw(items, idx \ {i})

\* expenseCategoryMap and incomeSourceMap: the key of an item is its category
\* or source, `|| "Uncategorized"` or `|| "Other"` for the empty string.
expenseCategoryMap(expenses) ==
    LET key(i) == IF expenses[i].category = "" THEN "Uncategorized"
                  ELSE expenses[i].category
    IN  [k \in {key(i) : i \in DOMAIN expenses} |->
            SumRaw(expenses, {i \in DOMAIN expenses : key(i) = k})]
incomeSourceMap(incomes) ==
    LET key(i) == IF incomes[i].source = "" THEN "Other" ELSE incomes[i].source
    IN  [k \in {key(i) : i \in DOMAIN incomes} |->
            SumRaw(incomes, {i \in DOMAIN incomes : key(i) = k})]
\* The entries of the two maps as CategoryStat items; the order the sort
\* gives them is left out.
expenseByCategory(expenses) ==
    {[category |-> k, income |-> makeMoney(ZERO),
      expense |-> makeMoney(expenseCategoryMap(expenses)[k]),
      net |-> makeMoney(ZERO - expenseCategoryMap(expenses)[k])] :
        k \in DOMAIN expenseCategoryMap(expenses)}
incomeBySource(incomes) ==
    {[category |-> k, income |-> makeMoney(incomeSourceMap(incomes)[k]),
      expense |-> makeMoney(ZERO),
      net |-> makeMoney(incomeSourceMap(incomes)[k])] :
        k \in DOMAIN incomeSourceMap(incomes)}

\* The state set at the start of a refresh, after a successful one and in the
\* catch block.
\* Mutant of clearedState: the views shown before the refresh are kept.
clearedState_keep == [state EXCEPT !.refreshing = TRUE, !.loading = TRUE, !.error = ""]

clearedState == [INITIAL_STATE EXCEPT !.refreshing = TRUE]
loadedState(r, decrypted) ==
    LET incomes == [i \in DOMAIN r.incomesRaw |-> incomeItem(decrypted, r.incomesRaw[i])]
        expenses ==
            [i \in DOMAIN r.expensesRaw |-> expenseItem(decrypted, r.expensesRaw[i])]
    IN  [loading |-> FALSE, refreshing |-> FALSE, error |-> "",
         totals |-> [income |-> makeMoney(valueOf(decrypted, r.totalIncomeHandle)),
                     expense |-> makeMoney(valueOf(decrypted, r.totalExpenseHandle)),
                     net |-> makeMoney(normalizeSigned128(
                                           valueOf(decrypted, r.netIncomeHandle)))],
         incomes |-> incomes,
         expenses |-> expenses,
         budgets |-> [k \in DOMAIN r.budgetsRaw |-> budgetItem(decrypted, r.budgetsRaw[k])],
         goals |-> [i \in DOMAIN r.goalsRaw |-> goalItem(decrypted, r.goalsRaw[i])],
         analytics |-> [expenseByCategory |-> expenseByCategory(expenses),
                        incomeBySource |-> incomeBySource(incomes)]]
\* Mutant of failedState: the catch block leaves loading as it is.
failedState_loading(previous, message) ==
    [previous EXCEPT !.refreshing = FALSE, !.error = message]

failedState(previous, message) ==
    [previous EXCEPT !.refreshing = FALSE, !.loading = FALSE, !.error = message]

\* Mutant of guardPasses: no re-entrancy guard.
guardPasses_always(current) == TRUE

\* `if (refreshingRef.current) return;`
guardPasses(current) == ~current

\* refreshAll up to `await decryptHandles(decryptRequests)`.
refreshAll ==
    /\ guardPasses(refreshingRef)
    /\ refreshingRef' = TRUE
    /\ state' = clearedState
    /\ rawHandles' = readAll(Cur, currentAccount)
    /\ lastDecrypt' = NoDecrypt
    /\ UNCHANGED <<ledgerVars, calls, reverted, grantVars>>

\* The call of decryptHandles and the rest of refreshAll: the new state, or
\* the catch block; finally refreshingRef.current = false.
refreshAll_decrypt(signatureOK, outcome) ==
    /\ refreshingRef
    /\ refreshingRef' = FALSE
    /\ LET res == decryptHandles(Cur, decryptRequests(rawHandles), rawHandles.account,
                                  signatureOK, outcome)
       IN  /\ lastDecrypt' = res.log
           /\ state' = IF res.error = "" THEN loadedState(rawHandles, res.decrypted)
                       ELSE failedState(state, res.error)
    /\ UNCHANGED <<ledgerVars, calls, reverted, grantVars, rawHandles>>

\* A contract read of the refresh in flight rejects: the catch block, with
\* nothing read kept; finally refreshingRef.current = false.
refreshAll_readFails ==
    /\ refreshingRef
    /\ ~lastDecrypt.done
    /\ refreshingRef' = FALSE
    /\ state' = failedState(state, "read failed")
    /\ rawHandles' = NoRaw
    /\ UNCHANGED <<ledgerVars, calls, reverted, grantVars, lastDecrypt>>

\* The dashboard shows the totals unless the service is loading or refreshing.
rendersData(st) == ~(st.loading \/ st.refreshing)

ClientNext ==
    \/ /\ \E in \in IncomeInputs : addIncome(userAddress, 1, TRUE, in[1], in[2], "")
       /\ UNCHANGED sessionVars
    \/ /\ \E in \in ExpenseInputs \cup {<<"", 86400>>, <<"Uncategorized", 86400>>} :
              addExpense(userAddress, 1, TRUE, in[1], in[2], "")
       /\ UNCHANGED sessionVars
    \/ /\ setBudget(userAddress, 1, TRUE, "Food", 1, 86400)
       /\ UNCHANGED sessionVars
    \/ /\ \E goalType \in {0, 1} :
              setGoal(userAddress, "Fund", goalType, 1, TRUE, MonthWidth, "")
       /\ UNCHANGED sessionVars
    \/ /\ refreshAll
       /\ UNCHANGED sessionVars
    \/ /\ \E signatureOK \in BOOLEAN, outcome \in Outcomes :
              refreshAll_decrypt(signatureOK, outcome)
       /\ UNCHANGED sessionVars

ClientSpec == Init /\ [][ClientNext]_vars


\* ------------------------------------------------- the client session
\* The mutating actions of useShadowFinanceService with the refreshes they
\* and the effects request.  A string is a sequence of characters.
Digits == <<"0", "1", "2", "3", "4", "5", "6", "7", "8", "9">>
isDigit(c) == \E n \in DOMAIN Digits : Digits[n] = c
digitValue(c) == (CHOOSE n \in DOMAIN Digits : Digits[n] = c) - 1

RECURSIVE BigInt(_)
\* BigInt(text) of a string of decimal digits; BigInt("") is 0.
BigInt(text) ==
    IF text = <<>> THEN 0
    ELSE BigInt(SubSeq(text, 1, Len(text) - 1)) * 10 + digitValue(text[Len(text)])

\* String.prototype.trim, for the space character.
trim(value) ==
    LET kept == {i \in DOMAIN value : value[i] # " "}
    IN  IF kept = {} THEN <<>>
        ELSE SubSeq(value, CHOOSE i \in kept : \A j \in kept : i <= j,
                           CHOOSE i \in kept : \A j \in kept : i >= j)

\* The index of the first "." of text, or 0.
indexOfDot(text) ==
    IF \E i \in DOMAIN text : text[i] = "."
    THEN CHOOSE i \in DOMAIN text :
             text[i] = "." /\ \A j \in 1 .. (i - 1) : text[j] # "."
    ELSE 0

\* /^\d+(\.\d{0,2})?$/.test(text)
testMoney(text) ==
    LET dot == indexOfDot(text)
    IN  IF dot = 0 THEN text # <<>> /\ \A i \in DOMAIN text : isDigit(text[i])
        ELSE /\ dot >= 2
             /\ \A i \in 1 .. (dot - 1) : isDigit(text[i])
             /\ Len(text) - dot <= 2
             /\ \A i \in (dot + 1) .. Len(text) : isDigit(text[i])

\* Mutant of padEnd2: the fraction padded on the left.
padEnd2_start(text) ==
    IF Len(text) = 0 THEN <<"0", "0">> ELSE IF Len(text) = 1 THEN <<"0">> \o text ELSE text

\* fractionalPart.padEnd(2, "0")
padEnd2(text) ==
    IF Len(text) = 0 THEN <<"0", "0">> ELSE IF Len(text) = 1 THEN text \o <<"0">> ELSE text

\* parseMoneyInput: the cents, or the message of the error thrown.
parseMoneyInput(value) ==
    LET trimmed == trim(value)
        negative == trimmed # <<>> /\ trimmed[1] = "-"
        sanitized == IF negative THEN Tail(trimmed) ELSE trimmed
        dot == indexOfDot(sanitized)
        wholePart == IF dot = 0 THEN sanitized ELSE SubSeq(sanitized, 1, dot - 1)
        fractionalPart ==
            IF dot = 0 THEN <<>> ELSE SubSeq(sanitized, dot + 1, Len(sanitized))
    IN  IF trimmed = <<>> THEN [error |-> "Amount is required", cents |-> 0]
        ELSE IF ~testMoney(sanitized)
        THEN [error |-> "Amount must be a positive number with up to 2 decimals",
              cents |-> 0]
        ELSE IF negative
        THEN [error |-> "Negative amounts are not supported", cents |-> 0]
        ELSE [error |-> "",
              cents |-> BigInt(wholePart) * HUNDRED + BigInt(padEnd2(fractionalPart))]

\* The amount strings typed into the forms.
AmountInputs ==
    {<<"0", ".", "0", "1">>,
     <<>>, <<"a">>, <<"-", "1">>, <<"1", ".", "0", "0", "1">>}
ActionNames == {"addIncome", "addExpense", "setBudget", "setGoal"}

\* One call of refreshAll by who: past the guard it starts the refresh that
\* who awaits, otherwise it returns at once.
refreshAll_call(who) ==
    /\ lastCall' = IF guardPasses(refreshingRef) THEN "passed" ELSE "returned"
    /\ IF guardPasses(refreshingRef)
       THEN /\ refreshAll
            /\ owner' = who
            /\ inflight' = inflight + 1
       ELSE UNCHANGED <<ledgerVars, calls, reverted, grantVars, clientVars,
                        owner, inflight>>

\* The refresh in flight has ended: its promise resolves for the action that
\* awaits it.
refreshAll_resolved ==
    /\ inflight' = inflight - 1
    /\ owner' = "none"
    /\ acts' = [p \in Invocations |->
                   IF owner = p /\ acts[p].pc = "awaiting"
                   THEN [acts[p] EXCEPT !.pc = "finally"] ELSE acts[p]]
    /\ UNCHANGED <<actionPending, lastCall, timer, lastRejected, currentAccount>>

\* The readiness effect: setState(loading: true), then setTimeout(refreshAll).
effect_ready ==
    /\ ~timer
    /\ timer' = TRUE
    /\ state' = [state EXCEPT !.loading = TRUE]
    /\ UNCHANGED <<ledgerVars, calls, reverted, grantVars, refreshingRef, rawHandles,
                   lastDecrypt, actionPending, acts, owner, inflight, lastCall,
                   lastRejected, currentAccount>>
effect_timeout ==
    /\ timer
    /\ timer' = FALSE
    /\ refreshAll_call("effect")
    /\ UNCHANGED <<actionPending, acts, lastRejected, currentAccount>>

\* A page mounts: refreshAll unless the derived state is loading or refreshing.
page_mount ==
    /\ ~state.loading
    /\ ~(state.refreshing \/ actionPending)
    /\ refreshAll_call("mount")
    /\ UNCHANGED <<actionPending, acts, timer, lastRejected, currentAccount>>

\* Mutant of act_invoke: setActionPending(true) before the amount is parsed.
act_invoke_late(p, op, value) ==
    /\ acts[p].pc = "idle"
    /\ actionPending' = TRUE
    /\ IF parseMoneyInput(value).error # ""
       THEN /\ lastRejected' = value
            /\ UNCHANGED acts
       ELSE /\ acts' = [acts EXCEPT ![p] = [pc |-> "encrypting", op |-> op,
                                             input |-> value,
                                             cents |-> parseMoneyInput(value).cents,
                                             index |-> 0,
                                             sender |-> currentAccount]]
            /\ UNCHANGED lastRejected
    /\ UNCHANGED <<ledgerVars, calls, reverted, grantVars, clientVars,
                   owner, inflight, lastCall, timer, currentAccount>>

\* A mutating action up to setActionPending(true): parseMoneyInput throws, or
\* the action starts.
act_invoke(p, op, value) ==
    /\ acts[p].pc = "idle"
    /\ IF parseMoneyInput(value).error # ""
       THEN /\ lastRejected' = value
            /\ UNCHANGED <<actionPending, acts>>
       ELSE /\ actionPending' = TRUE
            /\ acts' = [acts EXCEPT ![p] = [pc |-> "encrypting", op |-> op,
                                             input |-> value,
                                             cents |-> parseMoneyInput(value).cents,
                                             index |-> 0,
                                             sender |-> currentAccount]]
            /\ UNCHANGED lastRejected
    /\ UNCHANGED <<ledgerVars, calls, reverted, grantVars, clientVars,
                   owner, inflight, lastCall, timer, currentAccount>>

\* runWithEncryption: the amount encrypted, the transaction sent and mined;
\* index is the count of the records of the kind before it.
act_submit(p, proofOK) ==
    /\ acts[p].pc = "encrypting"
    /\ \/ /\ acts[p].op = "addIncome"
          /\ addIncome(acts[p].sender, acts[p].cents % Modulus, proofOK, "Salary", 86400, "")
       \/ /\ acts[p].op = "addExpense"
          /\ addExpense(acts[p].sender, acts[p].cents % Modulus, proofOK, "Food", 86400, "")
       \/ /\ acts[p].op = "setBudget"
          /\ setBudget(acts[p].sender, acts[p].cents % Modulus, proofOK, "Food", 1, 86400)
       \/ /\ acts[p].op = "setGoal"
          /\ setGoal(acts[p].sender, "Fund", 0, acts[p].cents % Modulus, proofOK,
                     MonthWidth, "")
    /\ acts' = [acts EXCEPT ![p].pc = IF proofOK THEN "confirmed" ELSE "caught",
                            ![p].index = IF acts[p].op = "addIncome"
                                         THEN incomeCount[acts[p].sender]
                                         ELSE IF acts[p].op = "addExpense"
                                         THEN expenseCount[acts[p].sender]
                                         ELSE goalCount[acts[p].sender]]
    /\ UNCHANGED <<actionPending, owner, inflight, lastCall, timer, lastRejected, currentAccount>>

\* `await refreshAll()` of the action.
act_refresh(p) ==
    /\ acts[p].pc = "confirmed"
    /\ refreshAll_call(p)
    /\ acts' = [acts EXCEPT ![p].pc = IF guardPasses(refreshingRef) THEN "awaiting"
                                      ELSE "finally"]
    /\ UNCHANGED <<actionPending, timer, lastRejected, currentAccount>>

\* finally: setActionPending(false); the action returns.
act_finally(p) ==
    /\ acts[p].pc = "finally"
    /\ actionPending' = FALSE
    /\ acts' = [acts EXCEPT ![p].pc = "returned"]
    /\ UNCHANGED <<ledgerVars, calls, reverted, grantVars, clientVars,
                   owner, inflight, lastCall, timer, lastRejected, currentAccount>>

\* catch: the error message set; finally: setActionPending(false); the
\* action throws.
act_catch(p) ==
    /\ acts[p].pc = "caught"
    /\ state' = [state EXCEPT !.error = "transaction failed"]
    /\ actionPending' = FALSE
    /\ acts' = [acts EXCEPT ![p].pc = "threw"]
    /\ UNCHANGED <<ledgerVars, calls, reverted, grantVars, refreshingRef, rawHandles,
                   lastDecrypt, owner, inflight, lastCall, timer, lastRejected, currentAccount>>

SessionNext ==
    \/ \E p \in Invocations, op \in ActionNames, value \in AmountInputs :
           act_invoke(p, op, value)
    \/ \E p \in Invocations, proofOK \in BOOLEAN : act_submit(p, proofOK)
    \/ \E p \in Invocations : act_refresh(p)
    \/ \E p \in Invocations : act_finally(p)
    \/ \E p \in Invocations : act_catch(p)
    \/ effect_ready
    \/ effect_timeout
    \/ page_mount
    \/ /\ \E outcome \in {"ok", "refused"} : refreshAll_decrypt(TRUE, outcome)
       /\ refreshAll_resolved
    \/ /\ refreshAll_readFails
       /\ refreshAll_resolved

SessionSpec == Init /\ [][SessionNext]_vars

\* The session in which every awaited request returns or fails: the reads,
\* the signature and the decryption of a refresh, and the encryption, the
\* transaction and the continuations of an action.
refreshAll_settles ==
    \/ /\ refreshAll_readFails
       /\ refreshAll_resolved
    \/ /\ \E outcome \in {"ok", "refused"} : refreshAll_decrypt(TRUE, outcome)
       /\ refreshAll_resolved
act_continues(p) ==
    \/ act_finally(p)
    \/ act_catch(p)
    \/ act_refresh(p)
    \/ \E proofOK \in BOOLEAN : act_submit(p, proofOK)
\* The two invocations are of addIncome with an amount that parses.
LiveNext ==
    \/ \E p \in Invocations : act_invoke(p, "addIncome", <<"0", ".", "0", "1">>)
    \/ \E p \in Invocations : act_continues(p)
    \/ effect_ready
    \/ effect_timeout
    \/ page_mount
    \/ refreshAll_settles
SessionLive ==
    /\ Init /\ [][LiveNext]_vars
    /\ WF_vars(refreshAll_settles)
    /\ \A p \in Invocations : WF_vars(act_continues(p))

\* The wallet switches to another account while the page is ready: the signer
\* changes, refreshAll is a new callback, and the readiness effect runs again.
account_change ==
    /\ ~timer
    /\ currentAccount = userAddress
    /\ currentAccount' = CHOOSE a \in Accounts : a # userAddress
    /\ timer' = TRUE
    /\ state' = [state EXCEPT !.loading = TRUE]
    /\ UNCHANGED <<ledgerVars, calls, reverted, grantVars, refreshingRef, rawHandles,
                   lastDecrypt, actionPending, acts, owner, inflight, lastCall,
                   lastRejected>>
SwitchNext ==
    \/ LiveNext
    \/ account_change
SwitchSpec == Init /\ [][SwitchNext]_vars

\* The amount field of a form alone: a string put together from a lead, a
\* whole part, a fraction and a tail is submitted to addIncome.
MoneyStrings ==
    {lead \o whole \o fraction \o tail :
        lead \in {<<>>, <<" ">>, <<"-">>},
        whole \in {<<>>, <<"0">>, <<"1", "2">>, <<"a">>},
        fraction \in {<<>>, <<".">>, <<".", "5">>, <<".", "0", "7">>,
                      <<".", "1", "2", "3">>, <<".", "a">>, <<".", "1", ".">>,
                      <<" ", "1">>},
        tail \in {<<>>, <<" ">>}}
ParseNext == \E value \in MoneyStrings : act_invoke("first", "addIncome", value)
ParseSpec == Init /\ [][ParseNext]_vars


\* ------------------------------------------------ history of the inputs
RECURSIVE SumCalls(_, _, _, _)
\* The sum of the amounts of the first n calls of kind op made by sender with a
\* key among keys (as an unbounded integer).
SumCalls(n, op, sender, keys) ==
    IF n = 0 THEN 0
    ELSE SumCalls(n - 1, op, sender, keys)
         + (IF calls[n].op = op /\ calls[n].sender = sender /\ calls[n].key \in keys
            THEN calls[n].amount ELSE 0)

IncomeSum(a) == SumCalls(Len(calls), "addIncome", a, Sources)
ExpenseSum(a) == SumCalls(Len(calls), "addExpense", a, Categories)
SpentSum(a, c) == SumCalls(Len(calls), "addExpense", a, {c})

CallsOf(op, a, key) ==
    {n \in 1 .. Len(calls) : calls[n].op = op /\ calls[n].sender = a /\ calls[n].key = key}

\* setBudget has succeeded for (a, c), and the amount of the most recent one.
BudgetWasSet(a, c) == CallsOf("setBudget", a, c) # {}
LastBudgetAmount(a, c) ==
    LET ns == CallsOf("setBudget", a, c)
    IN  calls[CHOOSE n \in ns : \A m \in ns : m <= n].amount

\* The successful calls of kind op made by a, and the position in calls of
\* the one that k such calls precede (k = 0 for the first).
CallsBy(op, a) == {n \in 1 .. Len(calls) : calls[n].op = op /\ calls[n].sender = a}
NthCallBy(op, a, k) ==
    CHOOSE n \in CallsBy(op, a) : Cardinality({m \in CallsBy(op, a) : m < n}) = k
LastReverted == reverted[Len(reverted)]
FirstBudgetCall(a, c) ==
    CHOOSE n \in CallsOf("setBudget", a, c) : \A m \in CallsOf("setBudget", a, c) : n <= m
LastBudgetCall(a, c) ==
    calls[CHOOSE n \in CallsOf("setBudget", a, c) :
              \A m \in CallsOf("setBudget", a, c) : m <= n]

\* Plaintexts in the current state.
TotalIncomeOf(a) == Dec(Cur, getTotalIncome(Cur, a))
TotalExpenseOf(a) == Dec(Cur, getTotalExpense(Cur, a))
NetIncomeRaw(a) == Dec(Cur, getNetIncome(Cur, a))
SavingsGoals(a) == {i \in Indices : i < goalCount[a] /\ goals[a][i].goalType = 0}
ExpenseCapGoals(a) == {i \in Indices : i < goalCount[a] /\ goals[a][i].goalType = 1}
GoalTarget(a, i) == Dec(Cur, goals[a][i].targetAmount)
GoalReadsCompleted(a, i) == Dec(Cur, isGoalCompleted(Cur, a, i)) = 1

\* ----------------------------------------------------------------- claims

\* C1: for every account the plaintext behind getTotalIncome is the sum of the
\* amounts of its successful addIncome calls modulo 2^Bits, and the plaintext
\* behind getTotalExpense the sum of its addExpense amounts; the first write
\* stores the amount's own handle, a later write a new handle (the sum).
C1_AggregateCorrectness ==
    \A a \in Accounts :
        /\ TotalIncomeOf(a) = IncomeSum(a) % Modulus
        /\ TotalExpenseOf(a) = ExpenseSum(a) % Modulus
        /\ incomeCount[a] = 1 => totalIncome[a] = incomeRecords[a][0].amount
        /\ expenseCount[a] = 1 => totalExpense[a] = expenseRecords[a][0].amount
        /\ incomeCount[a] > 1 =>
               totalIncome[a] \notin {incomeRecords[a][i].amount : i \in Indices}
        /\ expenseCount[a] > 1 =>
               totalExpense[a] \notin {expenseRecords[a][i].amount : i \in Indices}

C1_Witness ==
    \E a \in Accounts :
        /\ incomeCount[a] = 2
        /\ IncomeSum(a) >= Modulus
        /\ \E b \in Accounts \ {a} : expenseCount[b] > 0

\* C2 as stated: in every state the value read through getNetIncome,
\* reinterpreted as a signed number, is decrypted totalIncome minus decrypted
\* totalExpense.
C2_NetIncomeSignedAlways ==
    \A a \in Accounts :
        normalizeSigned128(NetIncomeRaw(a)) = TotalIncomeOf(a) - TotalExpenseOf(a)

\* C2 amended: the value read through getNetIncome is (totalIncome -
\* totalExpense) modulo 2^Bits, and its signed reinterpretation is the
\* difference itself whenever the difference lies in [-2^(Bits-1), 2^(Bits-1)).
C2_NetIncomeIdentity ==
    \A a \in Accounts :
        LET d == TotalIncomeOf(a) - TotalExpenseOf(a)
        IN  /\ NetIncomeRaw(a) = d % Modulus
            /\ (-Half <= d /\ d < Half) => normalizeSigned128(NetIncomeRaw(a)) = d

C2_Witness ==
    \E a \in Accounts :
        /\ incomeCount[a] > 0
        /\ TotalIncomeOf(a) - TotalExpenseOf(a) < 0
        /\ TotalIncomeOf(a) - TotalExpenseOf(a) >= -Half
        /\ normalizeSigned128(NetIncomeRaw(a)) < 0

\* C3 as stated: for every category with a budget, getBudgetRemaining read as
\* a signed number is B - S, B the amount of the most recent setBudget and S
\* the sum of the account's expense amounts in the category.
C3_BudgetRemainingSignedAlways ==
    \A a \in Accounts, c \in Categories :
        BudgetWasSet(a, c) =>
            normalizeSigned128(Dec(Cur, getBudgetRemaining(Cur, a, c)))
                = LastBudgetAmount(a, c) - SpentSum(a, c)

\* C3 amended: the value read through getBudgetRemaining is (B - S) modulo
\* 2^Bits, and its signed reinterpretation is B - S whenever B - S lies in
\* [-2^(Bits-1), 2^(Bits-1)).
C3_BudgetRemainder ==
    \A a \in Accounts, c \in Categories :
        BudgetWasSet(a, c) =>
            LET d == LastBudgetAmount(a, c) - SpentSum(a, c)
                raw == Dec(Cur, getBudgetRemaining(Cur, a, c))
            IN  /\ raw = d % Modulus
                /\ (-Half <= d /\ d < Half) => normalizeSigned128(raw) = d

C3_Witness ==
    \E a \in Accounts, c \in Categories :
        /\ BudgetWasSet(a, c)
        /\ calls[Len(calls)].op = "addExpense"
        /\ LastBudgetAmount(a, c) - SpentSum(a, c) < 0
        /\ LastBudgetAmount(a, c) - SpentSum(a, c) >= -Half
        /\ normalizeSigned128(Dec(Cur, getBudgetRemaining(Cur, a, c))) < 0

\* C4: for every category with a budget, isOverBudget reads true exactly when
\* the category's spend (the category aggregate: the sum of the category's
\* expense amounts modulo 2^Bits) is strictly greater than the budget amount.
C4_OverBudgetIffSpendExceeds ==
    \A a \in Accounts, c \in Categories :
        BudgetWasSet(a, c) =>
            (Dec(Cur, isOverBudget(Cur, a, c)) = 1
                <=> SpentSum(a, c) % Modulus > LastBudgetAmount(a, c))

C4_WitnessEqual ==
    \E a \in Accounts, c \in Categories :
        /\ BudgetWasSet(a, c)
        /\ SpentSum(a, c) = LastBudgetAmount(a, c)
        /\ Dec(Cur, isOverBudget(Cur, a, c)) = 0

\* C5: for every savings goal with target T, isGoalCompleted reads true
\* exactly when net income (total income minus total expense, signed) is >= T.
C5_SavingsGoalCompletedIffNetReachesTarget ==
    \A a \in Accounts : \A i \in SavingsGoals(a) :
        GoalReadsCompleted(a, i)
            <=> TotalIncomeOf(a) - TotalExpenseOf(a) >= GoalTarget(a, i)

\* C6: once a savings goal reads completed, it still reads completed after a
\* further addIncome of the same account.
C6_CompletedStaysTrueUnderIncome ==
    [][\A a \in Accounts : \A i \in SavingsGoals(a) :
          (/\ GoalReadsCompleted(a, i)
           /\ Len(calls') = Len(calls) + 1
           /\ calls'[Len(calls')].op = "addIncome"
           /\ calls'[Len(calls')].sender = a)
          => Dec(Cur', isGoalCompleted(Cur', a, i)) = 1]_vars

\* C7: for every expense-cap goal with target T, the progress read through
\* getGoalProgress is the account's total expense and isGoalCompleted reads
\* true exactly when total expense <= T.
C7_ExpenseCapGoal ==
    \A a \in Accounts : \A i \in ExpenseCapGoals(a) :
        /\ Dec(Cur, getGoalProgress(Cur, a, i)[1]) = ExpenseSum(a) % Modulus
        /\ getGoalProgress(Cur, a, i)[2] = goals[a][i].targetAmount
        /\ GoalReadsCompleted(a, i) <=> ExpenseSum(a) % Modulus <= GoalTarget(a, i)

C7_Witness ==
    \E a \in Accounts : \E i \in ExpenseCapGoals(a) :
        /\ calls[Len(calls)].op = "addExpense"
        /\ calls[Len(calls)].sender = a
        /\ ExpenseSum(a) % Modulus > GoalTarget(a, i)
        /\ ~GoalReadsCompleted(a, i)

\* C8: every non-empty handle held in a slot of an account has the account
\* and the ledger contract in its access-control set.
C8_StoredHandlesGranted ==
    \A a \in Accounts : \A h \in SlotHandles(Cur, a) \ {0} :
        <<h, a>> \in acl /\ <<h, ThisContract>> \in acl

C8_Witness ==
    \E a \in Accounts, c \in Categories :
        /\ netIncomeValue[a] # 0
        /\ budgetRemaining[a][c] # 0
        /\ budgetOverStatus[a][c] # 0
        /\ goalCompleted[a][0] # 0
        /\ goalProgressCurrent[a][0] # 0

\* C9: a transaction adds to the access-control sets only the account that
\* called it and the ledger contract, and no account is in the access-control
\* set of a handle held in another account's slots.
C9_GrantsOnlyToCallerAndLedger ==
    /\ [](\A a \in Accounts, b \in Accounts :
             a # b => \A h \in SlotHandles(Cur, a) \ {0} : <<h, b>> \notin acl)
    /\ [][\A g \in acl' \ acl :
             /\ Len(calls') = Len(calls) + 1
             /\ g[2] \in {calls'[Len(calls')].sender, ThisContract}]_vars

C9_Witness ==
    \E a \in Accounts, b \in Accounts :
        /\ a # b
        /\ netIncomeValue[a] # 0 /\ netIncomeValue[b] # 0
        /\ <<netIncomeValue[a], a>> \in acl /\ <<netIncomeValue[b], b>> \in acl

\* C10: no read lets a caller obtain a handle held in another account's slots
\* (the reads are the accessors keyed by msg.sender and the getters of the
\* public mappings, which take the account as an argument).
C10_NoCrossAccountRead ==
    \A a \in Accounts, b \in Accounts :
        a # b =>
            ReadableHandles(Cur, b) \cap (SlotHandles(Cur, a) \ {0}) = {}

\* C12: a call of addIncome, addExpense, setBudget or setGoal whose
\* ciphertext/proof pair fails verification changes nothing of the ledger: no
\* record, count, aggregate slot, flag, budget, category list, ciphertext,
\* access grant or event.
C12_ProofFailureHasNoEffect ==
    [][(/\ Len(reverted') = Len(reverted) + 1
        /\ reverted'[Len(reverted')].reason = "ProofInvalid")
       => /\ ledgerVars' = ledgerVars
          /\ calls' = calls]_vars

C12_Witness ==
    /\ Len(reverted) = 1
    /\ LastReverted = [op |-> "setBudget", reason |-> "ProofInvalid"]
    /\ \E a \in Accounts : Len(budgetCategories[a]) = 1 /\ incomeCount[a] = 1

\* C13: setGoal with a goal type other than 0 and 1 is rejected, even with a
\* valid proof: goalCount, the goals, the progress and completed slots, the
\* access grants, the event log and the rest of the ledger are as before.
C13_InvalidGoalTypeHasNoEffect ==
    [][(/\ Len(reverted') = Len(reverted) + 1
        /\ reverted'[Len(reverted')].reason = "InvalidGoalType")
       => /\ goalCount' = goalCount /\ goals' = goals
          /\ goalProgressCurrent' = goalProgressCurrent
          /\ hasGoalProgress' = hasGoalProgress
          /\ goalCompleted' = goalCompleted
          /\ acl' = acl /\ events' = events /\ ct' = ct
          /\ ledgerVars' = ledgerVars]_vars

C13_Witness ==
    /\ Len(reverted) = 1
    /\ LastReverted = [op |-> "setGoal", reason |-> "InvalidGoalType"]
    /\ \E a \in Accounts : goalCount[a] = 2

\* C15: for every account and record kind the count is the number of
\* successful appends, index k - 1 holds the record of the k-th append and the
\* indices from the count on are empty; a step never decreases a count and
\* never changes a record below the count.
C15_DenseIndices ==
    /\ [](\A a \in Accounts :
             /\ incomeCount[a] = Cardinality(CallsBy("addIncome", a))
             /\ expenseCount[a] = Cardinality(CallsBy("addExpense", a))
             /\ goalCount[a] = Cardinality(CallsBy("setGoal", a))
             /\ \A i \in Indices :
                    /\ IF i < incomeCount[a]
                       THEN /\ incomeRecords[a][i].amount # 0
                            /\ Dec(Cur, incomeRecords[a][i].amount)
                                   = calls[NthCallBy("addIncome", a, i)].amount % Modulus
                            /\ incomeRecords[a][i].source
                                   = calls[NthCallBy("addIncome", a, i)].key
                            /\ incomeRecords[a][i].date
                                   = calls[NthCallBy("addIncome", a, i)].date
                       ELSE incomeRecords[a][i] = ZeroIncomeRecord
                    /\ IF i < expenseCount[a]
                       THEN /\ expenseRecords[a][i].amount # 0
                            /\ Dec(Cur, expenseRecords[a][i].amount)
                                   = calls[NthCallBy("addExpense", a, i)].amount % Modulus
                            /\ expenseRecords[a][i].category
                                   = calls[NthCallBy("addExpense", a, i)].key
                            /\ expenseRecords[a][i].date
                                   = calls[NthCallBy("addExpense", a, i)].date
                       ELSE expenseRecords[a][i] = ZeroExpenseRecord
                    /\ IF i < goalCount[a]
                       THEN /\ goals[a][i].targetAmount # 0
                            /\ Dec(Cur, goals[a][i].targetAmount)
                                   = calls[NthCallBy("setGoal", a, i)].amount % Modulus
                            /\ goals[a][i].goalType
                                   = calls[NthCallBy("setGoal", a, i)].goalType
                            /\ goals[a][i].active
                       ELSE goals[a][i] = ZeroGoal)
    /\ [][\A a \in Accounts :
             /\ incomeCount'[a] >= incomeCount[a]
             /\ expenseCount'[a] >= expenseCount[a]
             /\ goalCount'[a] >= goalCount[a]
             /\ \A i \in Indices :
                    /\ i < incomeCount[a] => incomeRecords'[a][i] = incomeRecords[a][i]
                    /\ i < expenseCount[a] => expenseRecords'[a][i] = expenseRecords[a][i]
                    /\ i < goalCount[a] => goals'[a][i] = goals[a][i]]_vars

C15_Witness ==
    \E a \in Accounts :
        /\ incomeCount[a] = 3
        /\ incomeRecords[a][0].source # incomeRecords[a][2].source
        /\ Dec(Cur, incomeRecords[a][0].amount) # Dec(Cur, incomeRecords[a][1].amount)

\* C16: the budget stored for a category is the one of the most recent
\* successful setBudget for it (amount, period, startDate), active; a category
\* never set has no budget; the category list holds every category ever set
\* exactly once, in the order of first setting.
C16_BudgetIsLatest ==
    \A a \in Accounts :
        /\ \A c \in Categories :
               IF BudgetWasSet(a, c)
               THEN /\ budgets[a][c].active
                    /\ budgets[a][c].category = c
                    /\ budgets[a][c].period = LastBudgetCall(a, c).period
                    /\ budgets[a][c].startDate = LastBudgetCall(a, c).date
                    /\ Dec(Cur, budgets[a][c].amount)
                           = LastBudgetCall(a, c).amount % Modulus
                    /\ Cardinality({i \in 1 .. Len(budgetCategories[a]) :
                                        budgetCategories[a][i] = c}) = 1
               ELSE /\ budgets[a][c] = ZeroBudget
                    /\ \A i \in 1 .. Len(budgetCategories[a]) : budgetCategories[a][i] # c
        /\ \A i \in 1 .. Len(budgetCategories[a]), j \in 1 .. Len(budgetCategories[a]) :
               i < j => FirstBudgetCall(a, budgetCategories[a][i])
                            < FirstBudgetCall(a, budgetCategories[a][j])

C16_Witness ==
    \E a \in Accounts :
        /\ Len(budgetCategories[a]) = 2
        /\ Cardinality(CallsOf("setBudget", a, budgetCategories[a][1])) = 2
        /\ budgets[a][budgetCategories[a][1]].period = 2
        /\ calls[FirstBudgetCall(a, budgetCategories[a][1])].period = 1

\* C17: a signature with start time s and duration d days is valid at time
\* now exactly when now < s + d * 86400: a stored signature is returned by a
\* load exactly then, and one of 365 days is valid 364 days after s, invalid
\* exactly 365 days after s and invalid 366 days after s.
C17_GrantValidity ==
    /\ \A g \in grants :
           isValid(g.sig, now)
               <=> now < g.sig.startTimestamp + g.sig.durationDays * 86400
    /\ loaded.stored # null =>
           /\ loaded.result \in {loaded.stored, null}
           /\ loaded.result = loaded.stored
                  <=> loaded.at < loaded.stored.startTimestamp
                                      + loaded.stored.durationDays * 86400
           /\ loaded.stored.durationDays = 365
           /\ loaded.at = loaded.stored.startTimestamp + 364 * 86400
                  => loaded.result = loaded.stored
           /\ loaded.at = loaded.stored.startTimestamp + 365 * 86400
                  => loaded.result = null
           /\ loaded.at = loaded.stored.startTimestamp + 366 * 86400
                  => loaded.result = null

C17_Witness ==
    /\ loaded.stored # null
    /\ loaded.stored.startTimestamp > 0
    /\ loaded.at = loaded.stored.startTimestamp + 365 * 86400
    /\ loaded.result = null

\* C18: a signature satisfies the validity check at the moment it is
\* presented to the decryption service and at the moment a load returns it.
C18_GrantValidWheneverUsed ==
    /\ presented.sig # null => isValid(presented.sig, presented.at)
    /\ loaded.result # null => isValid(loaded.result, loaded.at)

\* C19: at most one key pair is ever generated for the account, every
\* signature produced carries that key pair, and the key pair is the stored
\* one when it is used for signing.
C19_OneKeyPairPerAccount ==
    /\ generated <= 1
    /\ \A g \in grants, h \in grants :
           /\ g.sig.publicKey = h.sig.publicKey
           /\ g.sig.privateKey = h.sig.privateKey
    /\ \A g \in grants : g.persisted

\* The slots shown by the client after a refresh, each with the handle read
\* for it: a money value, or a flag.
MoneySlots ==
    {<<rawHandles.totalIncomeHandle, state.totals.income>>,
     <<rawHandles.totalExpenseHandle, state.totals.expense>>,
     <<rawHandles.netIncomeHandle, state.totals.net>>}
    \cup {<<rawHandles.incomesRaw[i].amountHandle, state.incomes[i].amount>> :
              i \in DOMAIN state.incomes}
    \cup {<<rawHandles.expensesRaw[i].amountHandle, state.expenses[i].amount>> :
              i \in DOMAIN state.expenses}
    \cup UNION {{<<rawHandles.budgetsRaw[k].amountHandle, state.budgets[k].amount>>,
                  <<rawHandles.budgetsRaw[k].executionHandle, state.budgets[k].spent>>,
                  <<rawHandles.budgetsRaw[k].remainingHandle, state.budgets[k].remaining>>} :
                    k \in DOMAIN state.budgets}
    \cup UNION {{<<rawHandles.goalsRaw[i].targetHandle, state.goals[i].target>>,
                  <<rawHandles.goalsRaw[i].currentHandle, state.goals[i].current>>} :
                    i \in DOMAIN state.goals}
FlagSlots ==
    {<<rawHandles.budgetsRaw[k].overHandle, state.budgets[k].isOverBudget>> :
        k \in DOMAIN state.budgets}
    \cup {<<rawHandles.goalsRaw[i].completedHandle, state.goals[i].completed>> :
              i \in DOMAIN state.goals}
RefreshSucceeded == lastDecrypt.done /\ state.error = ""

\* C11: when the decryption service refuses a batch or leaves a requested
\* handle without plaintext, the refresh ends in the error state, no record
\* of the batch is listed and the page shows no value for its handles.
C11_FailedDecryptionShowsNothing ==
    (lastDecrypt.called /\ ~lastDecrypt.answered) =>
        /\ state.error # ""
        /\ state.incomes = <<>> /\ state.expenses = <<>>
        /\ state.budgets = <<>> /\ state.goals = <<>>
        /\ ~rendersData(state)

\* C14: an accessor of an aggregate slot that was never written returns the
\* empty handle, and after a refresh the client shows for the empty handle
\* what it shows for a handle whose plaintext is 0: 0.00, or false.
C14_IdempotentZero ==
    /\ \A a \in Accounts :
           /\ CallsBy("addIncome", a) = {} =>
                  getTotalIncome(Cur, a) = 0 /\ getSavingRateRaw(Cur, a)[2] = 0
           /\ CallsBy("addExpense", a) = {} => getTotalExpense(Cur, a) = 0
           /\ CallsBy("addIncome", a) \cup CallsBy("addExpense", a) = {} =>
                  getNetIncome(Cur, a) = 0 /\ getSavingRateRaw(Cur, a)[1] = 0
           /\ \A c \in Sources :
                  CallsOf("addIncome", a, c) = {} => getCategoryIncome(Cur, a, c) = 0
           /\ \A c \in Categories :
                  /\ CallsOf("addExpense", a, c) = {} =>
                         /\ getCategoryExpense(Cur, a, c) = 0
                         /\ getBudgetExecution(Cur, a, c) = 0
                  /\ ~BudgetWasSet(a, c) =>
                         /\ getBudgetRemaining(Cur, a, c) = 0
                         /\ isOverBudget(Cur, a, c) = 0
           /\ \A m \in Buckets :
                  /\ (\A n \in CallsBy("addIncome", a) : monthTimestamp(calls[n].date) # m)
                         => getMonthlyIncome(Cur, a, m) = 0
                  /\ (\A n \in CallsBy("addExpense", a) : monthTimestamp(calls[n].date) # m)
                         => getMonthlyExpense(Cur, a, m) = 0
           /\ \A i \in Indices :
                  i >= goalCount[a] =>
                      /\ getGoalProgress(Cur, a, i)[1] = 0
                      /\ isGoalCompleted(Cur, a, i) = 0
    /\ RefreshSucceeded =>
           /\ \A slot \in MoneySlots :
                  (slot[1] = ZERO_HANDLE \/ Dec(Cur, slot[1]) = 0) => slot[2] = makeMoney(0)
           /\ \A slot \in FlagSlots :
                  (slot[1] = ZERO_HANDLE \/ Dec(Cur, slot[1]) = 0) => slot[2] = FALSE

C14_Witness ==
    /\ RefreshSucceeded
    /\ rawHandles.netIncomeHandle # ZERO_HANDLE
    /\ Dec(Cur, rawHandles.netIncomeHandle) = 0
    /\ \E k \in DOMAIN state.budgets :
           /\ rawHandles.budgetsRaw[k].executionHandle = ZERO_HANDLE
           /\ state.budgets[k].spent = state.totals.net
           /\ rawHandles.budgetsRaw[k].overHandle # ZERO_HANDLE
           /\ ~state.budgets[k].isOverBudget

\* C20: no batch sent to the decryption service holds the empty handle: the
\* batch is the non-empty handles read; when every handle read is empty no
\* signature is asked for, the service is not called and the refresh ends
\* without error, every value shown as 0.00.
C20_NoEmptyHandleSent ==
    /\ ZERO_HANDLE \notin lastDecrypt.batch
    /\ lastDecrypt.called =>
           lastDecrypt.batch = decryptRequests(rawHandles) \ {ZERO_HANDLE}
    /\ (lastDecrypt.done /\ decryptRequests(rawHandles) \subseteq {ZERO_HANDLE}) =>
           /\ ~lastDecrypt.ensured /\ ~lastDecrypt.called
           /\ state.error = "" /\ ~state.loading /\ ~state.refreshing
           /\ \A slot \in MoneySlots : slot[2] = makeMoney(0)

C20_Witness ==
    /\ lastDecrypt.done
    /\ decryptRequests(rawHandles) = {ZERO_HANDLE}
    /\ rendersData(state)
    /\ state.totals.income = makeMoney(0)

\* A step that makes one call of refreshAll: the timeout of the readiness
\* effect, the refresh of an action, or a call that changes lastCall.
RefreshCallStep ==
    \/ timer /\ ~timer'
    \/ \E p \in Invocations : acts[p].pc = "confirmed" /\ acts'[p].pc # "confirmed"
    \/ lastCall' # lastCall
ViewsEmpty(st) ==
    /\ st.totals = INITIAL_STATE.totals
    /\ st.incomes = <<>> /\ st.expenses = <<>>
    /\ st.budgets = <<>> /\ st.goals = <<>>
    /\ st.analytics = INITIAL_STATE.analytics
\* The invocations between setActionPending(true) and the end of finally.
ActionsInFlight ==
    {p \in Invocations : acts[p].pc \notin {"idle", "returned", "threw"}}

\* C21: at most one refresh is in flight; a call of refreshAll made while one
\* is in flight reads nothing, decrypts nothing and leaves the service state
\* as it is, whoever makes it.
C21_OneRefreshInFlight ==
    /\ [](inflight <= 1 /\ (refreshingRef <=> inflight = 1))
    /\ [][inflight' > inflight => ~refreshingRef]_vars
    /\ [][(RefreshCallStep /\ refreshingRef) =>
              /\ lastCall' = "returned"
              /\ UNCHANGED <<ledgerVars, calls, reverted, state, refreshingRef,
                             rawHandles, lastDecrypt, inflight, owner>>]_vars

C21_Witness ==
    /\ refreshingRef
    /\ lastCall = "returned"
    /\ owner = "effect"
    /\ \E p \in Invocations : acts[p].pc = "finally"

\* C22: at most one mutating action is in flight at any time, and
\* actionPending is set exactly while one is.
C22_ActionsSerialized ==
    /\ Cardinality(ActionsInFlight) <= 1
    /\ actionPending <=> ActionsInFlight # {}

\* C23: once a mutating action has returned and no refresh is in flight, a
\* display that shows data shows the record, budget or goal of that action.
C23_ActionEffectDisplayed ==
    \A p \in Invocations :
        (acts[p].pc = "returned" /\ inflight = 0 /\ state.error = ""
            /\ ~state.loading) =>
            /\ acts[p].op = "addIncome" => Len(state.incomes) > acts[p].index
            /\ acts[p].op = "addExpense" => Len(state.expenses) > acts[p].index
            /\ acts[p].op = "setGoal" => Len(state.goals) > acts[p].index
            /\ acts[p].op = "setBudget" =>
                   \E k \in DOMAIN state.budgets : state.budgets[k].category = "Food"

\* C24: while a refresh is in flight the state is loading and refreshing with
\* every view empty; a refresh that fails at a read or at decryption leaves
\* the views empty, the error set, loading and refreshing false.
C24_ClearedWhileRefreshing ==
    /\ [](refreshingRef => state.loading /\ state.refreshing /\ ViewsEmpty(state))
    /\ [][(refreshingRef /\ ~refreshingRef'
              /\ (~lastDecrypt'.done \/ (lastDecrypt'.ensured /\ ~lastDecrypt'.answered)))
             => /\ ViewsEmpty(state')
                /\ state'.error # ""
                /\ ~state'.loading /\ ~state'.refreshing]_vars

C24_Witness ==
    /\ ~refreshingRef
    /\ lastDecrypt.called /\ ~lastDecrypt.answered
    /\ state.error = "userDecrypt failed"
    /\ incomeCount[userAddress] > 0
    /\ ViewsEmpty(state)
    /\ \E p \in Invocations : acts[p].pc = "returned" /\ acts[p].op = "addIncome"

\* An amount string that the forms must refuse: empty, with a character that
\* is neither a digit nor the decimal point, negative, or with more than two
\* digits after the decimal point.
Malformed(value) ==
    \/ \A i \in DOMAIN value : value[i] = " "
    \/ \E i \in DOMAIN value : ~isDigit(value[i]) /\ value[i] \notin {".", " ", "-"}
    \/ \E i \in DOMAIN value : value[i] = "-"
    \/ \E i \in DOMAIN value :
           value[i] = "." /\ Cardinality({j \in DOMAIN value : j > i /\ isDigit(value[j])}) > 2

\* C27: a mutating action given a malformed amount does nothing: it never
\* starts, sends no transaction, requests no refresh and leaves actionPending
\* as it is.
C27_MalformedAmountRejected ==
    /\ [](\A p \in Invocations : acts[p].pc # "idle" => ~Malformed(acts[p].input))
    /\ [](lastRejected # <<"none">> => Malformed(lastRejected))
    /\ [][lastRejected' # lastRejected =>
              UNCHANGED <<ledgerVars, calls, reverted, grantVars, clientVars,
                          actionPending, acts, owner, inflight, lastCall, timer>>]_vars

C27_Witness ==
    /\ lastRejected = <<"1", ".", "0", "0", "1">>
    /\ ~actionPending
    /\ calls = <<>>
    /\ state = INITIAL_STATE

\* Every handle the refresh has read, by the field that holds it.
AllHandlesRead(r) ==
    {r[f] : f \in {"totalIncomeHandle", "totalExpenseHandle", "netIncomeHandle",
                    "netIncomeHandleSavings", "totalIncomeHandleSavings"}}
    \cup {r.incomesRaw[i].amountHandle : i \in DOMAIN r.incomesRaw}
    \cup {r.expensesRaw[i].amountHandle : i \in DOMAIN r.expensesRaw}
    \cup {r.budgetsRaw[k][f] : k \in DOMAIN r.budgetsRaw,
             f \in {"amountHandle", "executionHandle", "remainingHandle", "overHandle"}}
    \cup {r.goalsRaw[i][f] : i \in DOMAIN r.goalsRaw,
             f \in {"targetHandle", "currentHandle", "completedHandle"}}
\* decryptHandles asked for a signature and got none.
GrantUnavailable == lastDecrypt.done /\ lastDecrypt.ensured /\ ~lastDecrypt.signed

\* C25: when no decryption grant is obtained the decryption service is not
\* called for any handle of the batch, no value decrypted from the batch is
\* in the state, and the refresh ends with an error.
C25_NoGrantNoDecryption ==
    /\ lastDecrypt.called => lastDecrypt.signed
    /\ GrantUnavailable =>
           /\ ~lastDecrypt.called /\ lastDecrypt.batch = {} /\ ~lastDecrypt.answered
           /\ state.error # ""
           /\ ~state.loading /\ ~state.refreshing /\ ~refreshingRef
           /\ state.totals = INITIAL_STATE.totals
           /\ state.incomes = <<>> /\ state.expenses = <<>>
           /\ state.budgets = <<>> /\ state.goals = <<>>

C25_Witness ==
    /\ GrantUnavailable
    /\ rawHandles.totalIncomeHandle # ZERO_HANDLE
    /\ Dec(Cur, rawHandles.totalIncomeHandle) # 0
    /\ rawHandles.incomesRaw # <<>>
    /\ state.error = "Unable to obtain FHEVM decryption signature"

\* C26: normalizeSigned128 inverts wrapping to the word: it returns x for
\* x mod 2^Bits with -2^(Bits-1) <= x < 2^(Bits-1), that is v below the half
\* range and v - 2^Bits from it on; the net income and the budget remaining
\* shown are the decrypted values so reinterpreted.
C26_SignedReinterpretation ==
    /\ \A x \in (0 - Half) .. (Half - 1) : normalizeSigned128(x % Modulus) = x
    /\ \A v \in 0 .. (Modulus - 1) :
           normalizeSigned128(v) = IF v < Half THEN v ELSE v - Modulus
    /\ (lastDecrypt.done /\ state.error = "") =>
           /\ \E x \in (0 - Half) .. (Half - 1) :
                  /\ x % Modulus = Dec(Cur, rawHandles.netIncomeHandle)
                  /\ state.totals.net = makeMoney(x)
           /\ \A k \in DOMAIN state.budgets :
                  \E x \in (0 - Half) .. (Half - 1) :
                      /\ x % Modulus = Dec(Cur, rawHandles.budgetsRaw[k].remainingHandle)
                      /\ state.budgets[k].remaining = makeMoney(x)

C26_Witness ==
    /\ lastDecrypt.done /\ state.error = ""
    /\ \E k \in DOMAIN state.budgets :
           /\ state.budgets[k].amount.raw = 1
           /\ state.budgets[k].spent.raw = 2
           /\ Dec(Cur, rawHandles.budgetsRaw[k].remainingHandle) = Modulus - 1
           /\ state.budgets[k].remaining.raw = 0 - 1
           /\ state.budgets[k].remaining.formatted.sign = "-"

\* C30 as stated: a refresh whose reads are complete issues exactly one
\* decryption request, for the whole set of handles read.
C30_ExactlyOneBatch ==
    lastDecrypt.done =>
        /\ lastDecrypt.called
        /\ lastDecrypt.batch = AllHandlesRead(rawHandles)

\* C30, amended: the decryption step is the last step of a refresh, after
\* all its reads, and runs once; it sends at most one request, of exactly
\* the non-empty handles read, and none when every handle read is empty or
\* no signature is obtained.
C30_AtMostOneBatch ==
    /\ [](lastDecrypt.called =>
              /\ lastDecrypt.done
              /\ lastDecrypt.batch = AllHandlesRead(rawHandles) \ {ZERO_HANDLE}
              /\ lastDecrypt.batch # {})
    /\ []((lastDecrypt.done /\ ~lastDecrypt.called) =>
              (AllHandlesRead(rawHandles) \subseteq {ZERO_HANDLE} \/ lastDecrypt.ensured))
    /\ [][(lastDecrypt' # lastDecrypt) =>
              IF lastDecrypt.done
              THEN lastDecrypt' = NoDecrypt /\ refreshingRef'
              ELSE lastDecrypt'.done /\ refreshingRef /\ ~refreshingRef'
                   /\ rawHandles' = rawHandles]_vars

C30_Witness ==
    /\ lastDecrypt.called /\ lastDecrypt.answered
    /\ ZERO_HANDLE \in AllHandlesRead(rawHandles)
    /\ rawHandles.goalsRaw # <<>>
    /\ rawHandles.incomesRaw # <<>>
    /\ state.error = ""

\* The storage of one account, and the grants on the handles held in it.
AccountState(L, user) ==
    [f \in DOMAIN L \ {"ct", "acl", "events"} |-> L[f][user]]
AccountGrants(L, user) ==
    {e \in L.acl : e[1] # 0 /\ e[1] \in SlotHandles(L, user)}
AccountPlaintexts(L, user) ==
    {<<h, Dec(L, h)>> : h \in SlotHandles(L, user)}

\* C28: a call by an account leaves the storage of every other account, the
\* plaintexts of its handles and the grants on them unchanged.
C28_OtherAccountsUntouched ==
    [][\A other \in Accounts :
          (calls' # calls /\ calls'[Len(calls')].sender # other) =>
              /\ AccountState(Cur, other)' = AccountState(Cur, other)
              /\ AccountGrants(Cur, other)' = AccountGrants(Cur, other)
              /\ AccountPlaintexts(Cur, other)' = AccountPlaintexts(Cur, other)]_vars

C28_Witness ==
    /\ Len(calls) = 3
    /\ calls[1].sender = "bob" /\ calls[1].op = "addExpense"
    /\ calls[2].sender = "bob" /\ calls[2].op = "setGoal" /\ calls[2].goalType = 1
    /\ calls[3].sender = "alice" /\ calls[3].op = "addExpense"
    /\ AccountGrants(Cur, "bob") # {}
    /\ totalExpense["bob"] # totalExpense["alice"]

\* The event of the n-th successful call: the caller and the plaintext
\* metadata of the call, with the number of earlier calls of the kind by the
\* caller as index; the amount is not read.
ExpectedEvent(n) ==
    LET c == [calls[n] EXCEPT !.amount = 0]
        before == Cardinality({m \in 1 .. (n - 1) :
                                  calls[m].op = c.op /\ calls[m].sender = c.sender})
    IN  IF c.op = "addIncome"
        THEN [kind |-> "IncomeAdded", user |-> c.sender, index |-> before,
              key |-> c.key, date |-> c.date]
        ELSE IF c.op = "addExpense"
        THEN [kind |-> "ExpenseAdded", user |-> c.sender, index |-> before,
              key |-> c.key, date |-> c.date]
        ELSE IF c.op = "setBudget"
        THEN [kind |-> "BudgetSet", user |-> c.sender, index |-> c.period,
              key |-> c.key, date |-> c.date]
        ELSE [kind |-> "GoalSet", user |-> c.sender, index |-> before,
              key |-> c.key, date |-> c.goalType]

\* C29: each successful call emits one event of its kind and a failed call
\* none; the index of an income, expense or goal event is the count before
\* the call; the events are determined by the callers and the plaintext
\* metadata of the calls, whatever the amounts.
C29_EventsFromMetadata ==
    /\ [](/\ Len(events) = Len(calls)
          /\ \A n \in DOMAIN events : events[n] = ExpectedEvent(n))
    /\ [][reverted' # reverted => events' = events]_vars
    /\ [][calls' # calls =>
              LET c == calls'[Len(calls')]
                  e == events'[Len(events')]
              IN  /\ events' = Append(events, e)
                  /\ c.op = "addIncome" => e.index = incomeCount[c.sender]
                  /\ c.op = "addExpense" => e.index = expenseCount[c.sender]
                  /\ c.op = "setGoal" => e.index = goalCount[c.sender]]_vars

C29_Witness ==
    /\ Len(reverted) = 1
    /\ Len(events) = 2
    /\ events[1].kind = "ExpenseAdded" /\ events[1].index = 0
    /\ events[2].kind = "ExpenseAdded" /\ events[2].index = 1
    /\ events[1].user = events[2].user
    /\ calls[1].amount # calls[2].amount

\* C31: the signature presented with a batch is the one signed in the step
\* that presents it, with the start time and key pair of that call of
\* loadOrSign; the steps of loadOrSign load no signature from the store and
\* leave the stored signature as it is, the key pair being all they save.
C31_SignaturePerBatch ==
    /\ [][presented' # presented =>
              /\ proc["service"].pc = "signTypedData"
              /\ proc'["service"].pc = "idle"
              /\ presented'.at = now
              /\ presented'.sig.startTimestamp = proc["service"].startTimestamp
              /\ presented'.sig.publicKey = proc["service"].finalKeyPair
              /\ presented'.sig.privateKey = proc["service"].finalKeyPair]_vars
    /\ [][proc' # proc =>
              /\ storage'.signature = storage.signature
              /\ loaded' = loaded]_vars
    /\ [][storage'.keypair # storage.keypair =>
              \E p \in Callers : proc[p].pc = "getItem" /\ proc'[p].pc = "new"]_vars

C31_Witness ==
    /\ presented.sig # null
    /\ presented.at = now
    /\ storage.signature # null
    /\ isValid(storage.signature, now)
    /\ storage.signature.startTimestamp < presented.sig.startTimestamp
    /\ storage.keypair = presented.sig.publicKey

\* C32: after a successful refresh every value shown that is no result of a
\* subtraction is the decrypted value itself: the totals of income and
\* expense, the amount of every record, the amount and spend of every
\* budget, the target of every goal and the progress of every expense-cap
\* goal, also from half the word on.
C32_PlainValuesAsDecrypted ==
    RefreshSucceeded =>
        /\ state.totals.income.raw = Dec(Cur, rawHandles.totalIncomeHandle)
        /\ state.totals.expense.raw = Dec(Cur, rawHandles.totalExpenseHandle)
        /\ \A i \in DOMAIN state.incomes :
               state.incomes[i].amount.raw = Dec(Cur, rawHandles.incomesRaw[i].amountHandle)
        /\ \A i \in DOMAIN state.expenses :
               state.expenses[i].amount.raw
                   = Dec(Cur, rawHandles.expensesRaw[i].amountHandle)
        /\ \A k \in DOMAIN state.budgets :
               /\ state.budgets[k].amount.raw
                      = Dec(Cur, rawHandles.budgetsRaw[k].amountHandle)
               /\ state.budgets[k].spent.raw
                      = Dec(Cur, rawHandles.budgetsRaw[k].executionHandle)
        /\ \A i \in DOMAIN state.goals :
               /\ state.goals[i].target.raw = Dec(Cur, rawHandles.goalsRaw[i].targetHandle)
               /\ state.goals[i].goalType = "expense" =>
                      state.goals[i].current.raw
                          = Dec(Cur, rawHandles.goalsRaw[i].currentHandle)

RECURSIVE SumAmounts(_, _)
\* The sum of the plaintext amounts of the records at the indices idx (as an
\* unbounded integer).
SumAmounts(records, idx) ==
    IF idx = {} THEN 0
    ELSE LET i == CHOOSE j \in idx : TRUE
         IN  Dec(Cur, records[i].amount) + SumAmounts(records, idx \ {i})
IncomeIndices(a) == 0 .. (incomeCount[a] - 1)
ExpenseIndices(a) == 0 .. (expenseCount[a] - 1)
Windows == {d \div MonthWidth : d \in Dates}

\* C33: for every account and every window k the plaintext behind the
\* monthly income slot keyed k * 2592000 is the sum modulo 2^Bits of the
\* amounts of the income records whose date d has floor(d / 2592000) = k,
\* and likewise for the monthly expense.
C33_MonthBucketing ==
    /\ MonthWidth = 2592000
    /\ \A a \in Accounts, k \in Windows :
           /\ Dec(Cur, getMonthlyIncome(Cur, a, k * MonthWidth))
                  = SumAmounts(incomeRecords[a],
                               {i \in IncomeIndices(a) :
                                    incomeRecords[a][i].date \div MonthWidth = k})
                        % Modulus
           /\ Dec(Cur, getMonthlyExpense(Cur, a, k * MonthWidth))
                  = SumAmounts(expenseRecords[a],
                               {i \in ExpenseIndices(a) :
                                    expenseRecords[a][i].date \div MonthWidth = k})
                        % Modulus

C33_Witness ==
    \E a \in Accounts :
        /\ expenseCount[a] = 3
        /\ expenseRecords[a][0].date = MonthWidth - 1
        /\ expenseRecords[a][1].date = MonthWidth + 86400
        /\ expenseRecords[a][2].date = 86400
        /\ Dec(Cur, expenseRecords[a][0].amount) = 1
        /\ Dec(Cur, expenseRecords[a][2].amount) = 1
        /\ Dec(Cur, monthlyExpense[a][0]) = 2
        /\ monthlyExpense[a][MonthWidth] = expenseRecords[a][1].amount

\* A decimal number with exactly two digits after the decimal point.
ExactlyTwoDecimals(text) ==
    /\ Len(text) >= 4
    /\ text[Len(text) - 2] = "."
    /\ \A i \in DOMAIN text : i # Len(text) - 2 => isDigit(text[i])
\* Digits, then possibly a decimal point with at most two digits after it.
UpToTwoDecimals(text) ==
    \E n \in 1 .. Len(text) :
        /\ \A i \in 1 .. n : isDigit(text[i])
        /\ Len(text) > n =>
               /\ text[n + 1] = "."
               /\ Len(text) <= n + 3
               /\ \A i \in (n + 2) .. Len(text) : isDigit(text[i])
\* The minor units of such a number: the whole part times 100 plus the
\* fraction read as hundredths.
MinorUnits(text) ==
    LET n == CHOOSE k \in 0 .. Len(text) :
                 /\ \A i \in 1 .. k : text[i] # "."
                 /\ k < Len(text) => text[k + 1] = "."
        tenths == IF Len(text) >= n + 2 THEN digitValue(text[n + 2]) ELSE 0
        hundredths == IF Len(text) >= n + 3 THEN digitValue(text[n + 3]) ELSE 0
    IN  BigInt(SubSeq(text, 1, n)) * 100 + tenths * 10 + hundredths

\* C34 as stated: an amount string is accepted exactly when it has exactly
\* two digits after the decimal point, and then yields whole * 100 + fraction.
C34_ExactlyTwoDecimals ==
    /\ acts["first"].pc # "idle" =>
           /\ ExactlyTwoDecimals(acts["first"].input)
           /\ acts["first"].cents = MinorUnits(acts["first"].input)
    /\ lastRejected # <<"none">> => ~ExactlyTwoDecimals(lastRejected)

\* C34, amended: an amount string is accepted exactly when, with the spaces
\* around it removed, it is digits followed by nothing, by a decimal point,
\* or by a decimal point and one or two digits; it yields the whole part
\* times 100 plus the fraction padded with zeros on the right to two digits.
\* Every other string is refused.
C34_UpToTwoDecimals ==
    /\ acts["first"].pc # "idle" =>
           /\ UpToTwoDecimals(trim(acts["first"].input))
           /\ acts["first"].cents = MinorUnits(trim(acts["first"].input))
    /\ lastRejected # <<"none">> => ~UpToTwoDecimals(trim(lastRejected))

C34_Witness ==
    /\ acts["first"].pc = "encrypting"
    /\ acts["first"].input = <<" ", "1", "2", ".", "5">>
    /\ acts["first"].cents = 1250
    /\ lastRejected = <<"1", "2", ".", "1", "2", "3">>

\* C35: after a successful refresh the expense groups of the analytics view
\* are the distinct category strings of the expenses listed, one group for
\* each, whose value is the sum of the amounts of the expenses with exactly
\* that category; likewise the income groups and the source strings.
C35_ExactKeyGrouping ==
    RefreshSucceeded =>
        /\ Cardinality(state.analytics.expenseByCategory)
               = Cardinality({state.expenses[i].category : i \in DOMAIN state.expenses})
        /\ \A i \in DOMAIN state.expenses :
               \E g \in state.analytics.expenseByCategory :
                   g.expense.raw
                       = SumRaw(state.expenses,
                                {j \in DOMAIN state.expenses :
                                     state.expenses[j].category
                                         = state.expenses[i].category})
        /\ Cardinality(state.analytics.incomeBySource)
               = Cardinality({state.incomes[i].source : i \in DOMAIN state.incomes})
        /\ \A i \in DOMAIN state.incomes :
               \E g \in state.analytics.incomeBySource :
                   g.income.raw
                       = SumRaw(state.incomes,
                                {j \in DOMAIN state.incomes :
                                     state.incomes[j].source = state.incomes[i].source})

\* The storage fields a call of setGoal may write, and those of setBudget.
GoalFields ==
    {"goals", "goalCount", "goalProgressCurrent", "hasGoalProgress", "goalCompleted"}
BudgetFields ==
    {"budgets", "budgetCategories", "budgetRemaining", "hasBudgetRemaining",
     "budgetOverStatus"}
AccountFields == DOMAIN Cur \ {"ct", "acl", "events"}
\* The last successful call.
LastCall == calls[Len(calls)]

\* C36: a successful setGoal leaves every record, count, total, sum, net
\* income, budget and budget state as it was, keeps the goals that existed,
\* and the progress and completed values of those decrypt to what they did
\* before; a successful setBudget leaves every record, count, total, sum,
\* net income and goal slot as it was.
C36_GoalAndBudgetFrame ==
    [][calls' # calls =>
          /\ LastCall'.op = "setGoal" =>
                 /\ \A f \in AccountFields \ GoalFields : Cur'[f] = Cur[f]
                 /\ \A a \in Accounts :
                        goalCount'[a] = goalCount[a] + (IF a = LastCall'.sender THEN 1 ELSE 0)
                 /\ \A a \in Accounts, i \in Indices :
                        i < goalCount[a] =>
                            /\ goals'[a][i] = goals[a][i]
                            /\ hasGoalProgress'[a][i] = hasGoalProgress[a][i]
                            /\ Dec(Cur, goalProgressCurrent[a][i])'
                                   = Dec(Cur, goalProgressCurrent[a][i])
                            /\ Dec(Cur, goalCompleted[a][i])'
                                   = Dec(Cur, goalCompleted[a][i])
          /\ LastCall'.op = "setBudget" =>
                 \A f \in AccountFields \ BudgetFields : Cur'[f] = Cur[f]]_vars

C36_Witness ==
    \E a \in Accounts :
        /\ Len(calls) = 3
        /\ calls[1].op = "addIncome" /\ calls[1].sender = a
        /\ calls[2].op = "setGoal" /\ calls[2].sender = a /\ calls[2].goalType = 0
        /\ calls[3].op = "setGoal" /\ calls[3].sender = a /\ calls[3].goalType = 1
        /\ goalCount[a] = 2
        /\ Dec(Cur, goalProgressCurrent[a][0]) = 1
        /\ Dec(Cur, goalCompleted[a][0]) = 1

RECURSIVE SumSlots(_, _)
\* The sum of the plaintexts behind the slots of the keys (as an unbounded
\* integer).
SumSlots(slots, keys) ==
    IF keys = {} THEN 0
    ELSE LET k == CHOOSE j \in keys : TRUE
         IN  Dec(Cur, slots[k]) + SumSlots(slots, keys \ {k})

\* C37: for every account the category incomes, the monthly incomes and the
\* total income add up, modulo 2^Bits, to the sum of the amounts of the
\* income records, and the category expenses, the monthly expenses and the
\* total expense to the sum of the amounts of the expense records.
C37_Conservation ==
    \A a \in Accounts :
        LET income == SumAmounts(incomeRecords[a], IncomeIndices(a)) % Modulus
            expense == SumAmounts(expenseRecords[a], ExpenseIndices(a)) % Modulus
        IN  /\ Dec(Cur, totalIncome[a]) = income
            /\ SumSlots(categoryIncome[a], Sources) % Modulus = income
            /\ SumSlots(monthlyIncome[a], Buckets) % Modulus = income
            /\ Dec(Cur, totalExpense[a]) = expense
            /\ SumSlots(categoryExpense[a], Categories) % Modulus = expense
            /\ SumSlots(monthlyExpense[a], Buckets) % Modulus = expense

C37_Witness ==
    \E a \in Accounts :
        /\ expenseCount[a] = 3
        /\ Cardinality({expenseRecords[a][i].category : i \in ExpenseIndices(a)}) = 2
        /\ Cardinality({monthTimestamp(expenseRecords[a][i].date) :
                            i \in ExpenseIndices(a)}) = 2
        /\ SumAmounts(expenseRecords[a], ExpenseIndices(a)) > Modulus
        /\ Dec(Cur, totalExpense[a]) = 1

\* C38: for every account, a total that was written implies a net income
\* that was written, so that the progress of a savings goal is the net
\* income and never the total income; a total was written exactly when a
\* record of its kind exists; every goal has its progress written; and for
\* every category the remaining budget was written exactly when the budget
\* stored is active, exactly when the category is in the list.
C38_FlagsConsistent ==
    \A a \in Accounts :
        /\ (hasTotalIncome[a] \/ hasTotalExpense[a]) => hasNetIncomeValue[a]
        /\ \A i \in Indices :
               (i < goalCount[a] /\ goals[a][i].goalType = 0 /\ hasTotalIncome[a]) =>
                   /\ goalProgressCurrent[a][i] = netIncomeValue[a]
                   /\ goalProgressCurrent[a][i] # totalIncome[a]
        /\ hasTotalIncome[a] <=> incomeCount[a] > 0
        /\ hasTotalExpense[a] <=> expenseCount[a] > 0
        /\ \A i \in Indices : i < goalCount[a] => hasGoalProgress[a][i]
        /\ \A c \in Categories :
               /\ hasBudgetRemaining[a][c] <=> budgets[a][c].active
               /\ budgets[a][c].active
                      <=> \E k \in DOMAIN budgetCategories[a] : budgetCategories[a][k] = c

C38_Witness ==
    \E a \in Accounts :
        /\ goalCount[a] = 1 /\ goals[a][0].goalType = 0
        /\ incomeCount[a] = 1 /\ expenseCount[a] = 0
        /\ hasNetIncomeValue[a] /\ ~hasTotalExpense[a]
        /\ Len(budgetCategories[a]) = 1
        /\ hasBudgetRemaining[a][budgetCategories[a][1]]
        /\ \E c \in Categories : ~hasBudgetRemaining[a][c]
        /\ calls[1].op = "setGoal" /\ calls[2].op = "addIncome"

\* C39: when every awaited request returns or fails, a refresh past the
\* guard ends, and the step that ends it, by success or by failure, clears
\* refreshingRef with loading and refreshing false; every mutating action in
\* flight returns or throws, and the step in which it does leaves
\* actionPending false.
C39_GuardReleased ==
    /\ refreshingRef ~> (~refreshingRef /\ ~state.loading /\ ~state.refreshing)
    /\ [][(refreshingRef /\ ~refreshingRef') =>
              (~state'.loading /\ ~state'.refreshing)]_vars
    /\ \A p \in Invocations :
           (acts[p].pc \notin {"idle", "returned", "threw"})
               ~> (acts[p].pc \in {"returned", "threw"})
    /\ [][\A p \in Invocations :
              (acts[p].pc # acts'[p].pc /\ acts'[p].pc \in {"returned", "threw"}) =>
                  ~actionPending']_vars

C39_Witness ==
    /\ acts["first"].pc = "returned"
    /\ acts["second"].pc = "threw"
    /\ ~actionPending
    /\ ~refreshingRef /\ ~state.loading /\ ~state.refreshing
    /\ lastDecrypt.done /\ state.error = "userDecrypt failed"

\* C40: once nothing is in flight (no refresh past the guard, no timer of the
\* readiness effect, no action between its invocation and its return) and a
\* refresh has published its result with loading false, what is displayed was
\* read under the connected account: the reads behind it were made for that
\* account, and no more income or expense records are shown than the
\* account has.
C40_DisplayedForCurrentAccount ==
    (/\ ~refreshingRef /\ inflight = 0 /\ ~timer
     /\ ActionsInFlight = {}
     /\ ~state.loading /\ RefreshSucceeded)
        => /\ rawHandles.account = currentAccount
           /\ Len(state.incomes) <= incomeCount[currentAccount]
           /\ Len(state.expenses) <= expenseCount[currentAccount]

====
